---------------------------- MODULE Spec2Model ----------------------------
(***************************************************************************)
(* A model of the document engines of f5xcctl: the merge patch             *)
(* (deepMerge), the JSON-pointer patch (applyJSONPatch, setPath,           *)
(* removePath, parseArrayIndex) of the patch command, the dot-path read    *)
(* of the wait command (evaluateSimpleJSONPath), the selector engine of    *)
(* the get command (filterByLabelSelector, filterByFieldSelector,          *)
(* getFieldValue), and the requests of the commands that poll or write a   *)
(* resource (runWait and its loops, applyResource).                        *)
(*                                                                         *)
(* Go maps and slices are reference values.  The model keeps them in a     *)
(* heap of cells addressed by their index; an interface{} value is either  *)
(* nil, a string, or a reference to a map cell or to a slice cell.  The    *)
(* operators thread the heap, so that a write through an alias of a        *)
(* caller's map would be visible in the caller's document.                 *)
(***************************************************************************)
EXTENDS Integers, Sequences, FiniteSets, TLC

VARIABLES
    heap,      \* the Go heap: a sequence of map and slice cells
    pc,        \* position of the command that is running
    doc,       \* the decoded current resource, as read (a tree)
    docRef,    \* its reference in the heap
    patch,     \* the merge patch as read (a tree), or the list of operations
    patchRef,  \* the decoded values of the patch in the heap, in order
    results,   \* merge: the references deepMerge returned, in call order
    current,   \* applyJSONPatch: the variable current
    opIdx,     \* applyJSONPatch: number of operations of the list applied
    err,       \* the error the command returned, "nil" for none
    sent,      \* the body of the PUT request issued, NoDoc for none
    jsonPath,  \* wait: the path expression, a string as characters
    waitValue, \* wait: what evaluateSimpleJSONPath returned
    labelSelector,  \* get: the flag --selector, a string as characters
    fieldSelector,  \* get: the flag --field-selector
    allNamespaces,  \* get: --all-namespaces given for a namespaced type
    printed,   \* get: the items written to the output, in order
    waitFor,        \* wait: the flag --for, a string as characters
    waitTimeout,    \* wait: the flag --timeout, in seconds
    condition,      \* wait: the condition name cut from --for
    expectedValue,  \* wait: the expected value cut from --for
    clock,          \* wait: seconds since the deadline was computed
    response,       \* the outcome of the last GET of the resource
    replaceOnly,    \* apply: the command is replace
    dryRun,         \* apply: the flag --dry-run
    requests   \* apply: the requests issued, in order

\* the flags and the output of the get command
getVars == <<labelSelector, fieldSelector, allNamespaces, printed>>

\* the flags and the requests of the wait and apply commands
netVars == <<waitFor, waitTimeout, condition, expectedValue, clock, response,
             replaceOnly, dryRun, requests>>

vars == <<heap, pc, doc, docRef, patch, patchRef, results, current, opIdx,
          err, sent, jsonPath, waitValue, getVars, netVars>>

----------------------------------------------------------------------------
(* The document model: decoded JSON/YAML values as trees.                   *)

Null == [t |-> "null"]
Str(s) == [t |-> "str", v |-> s]
Obj(m) == [t |-> "obj", m |-> m]
Arr(s) == [t |-> "arr", s |-> s]

\* interface{} values holding a Go map or a Go slice: references to cells
MapRef(a) == [t |-> "map", a |-> a]
SliceRef(a) == [t |-> "slice", a |-> a]

MapCell(m) == [m |-> m]
SliceCell(s) == [s |-> s]

NoDoc == [t |-> "none"]

EmptyMap == [k \in {} |-> Null]

\* m[k] of a Go map: the zero value nil when the key is missing
MapGet(m, k) == IF k \in DOMAIN m THEN m[k] ELSE Null

\* m[k] = v of a Go map
MapPut(m, k, v) == [x \in DOMAIN m \cup {k} |-> IF x = k THEN v ELSE m[x]]

\* delete(m, k) of a Go map
MapDelete(m, k) == [x \in DOMAIN m \ {k} |-> m[x]]

\* make(map[string]interface{}) or make([]interface{}, ...): a fresh cell
New(h, cell) == [h |-> Append(h, cell), a |-> Len(h) + 1]

\* a write into the map cell at address a
Store(h, a, k, v) == [h EXCEPT ![a] = MapCell(MapPut(h[a].m, k, v))]

\* a delete from the map cell at address a
Remove(h, a, k) == [h EXCEPT ![a] = MapCell(MapDelete(h[a].m, k))]

----------------------------------------------------------------------------
(* Decoding a response or a patch text builds a fresh tree of cells;        *)
(* encoding a request body reads the cells back into a tree.                *)

RECURSIVE Decode(_, _), DecodeFields(_, _, _, _), DecodeElems(_, _, _, _)
Decode(h, tr) ==
    CASE tr.t = "obj" ->
           LET r == DecodeFields(h, tr.m, DOMAIN tr.m, EmptyMap)
               n == New(r.h, MapCell(r.m))
           IN  [h |-> n.h, v |-> MapRef(n.a)]
      [] tr.t = "arr" ->
           LET r == DecodeElems(h, tr.s, 1, <<>>)
               n == New(r.h, SliceCell(r.s))
           IN  [h |-> n.h, v |-> SliceRef(n.a)]
      [] OTHER -> [h |-> h, v |-> tr]

DecodeFields(h, m, ks, acc) ==
    IF ks = {} THEN [h |-> h, m |-> acc]
    ELSE LET k == CHOOSE x \in ks : TRUE
             r == Decode(h, m[k])
         IN  DecodeFields(r.h, m, ks \ {k}, MapPut(acc, k, r.v))

DecodeElems(h, s, n, acc) ==
    IF n > Len(s) THEN [h |-> h, s |-> acc]
    ELSE LET r == Decode(h, s[n])
         IN  DecodeElems(r.h, s, n + 1, Append(acc, r.v))

RECURSIVE Encode(_, _)
Encode(h, v) ==
    CASE v.t = "map" ->
           Obj([k \in DOMAIN h[v.a].m |-> Encode(h, h[v.a].m[k])])
      [] v.t = "slice" ->
           Arr([n \in 1..Len(h[v.a].s) |-> Encode(h, h[v.a].s[n])])
      [] OTHER -> v

----------------------------------------------------------------------------
(* The merge patch engine.                                                  *)

\* deepMerge's first loop with a forgotten copy: result aliases dst
copyMapAlias(h, dst) == [h |-> h, a |-> dst]

\* result := make(map); for k, v := range dst { result[k] = v }
copyMap(h, dst) == New(h, MapCell(h[dst].m))

\* deepMerge's replace branch merging slices element-wise by position
replaceValueElementwise(h, res, k, v) ==
    LET old == MapGet(h[res].m, k)
    IN  IF v.t = "slice" /\ old.t = "slice"
        THEN LET a == h[old.a].s
                 b == h[v.a].s
                 n == New(h, SliceCell(b \o SubSeq(a, Len(b) + 1, Len(a))))
             IN  Store(n.h, res, k, SliceRef(n.a))
        ELSE Store(h, res, k, v)

\* result[k] = v  (and result[k] = srcMap)
replaceValue(h, res, k, v) == Store(h, res, k, v)

\* the nil test of the second loop never taken: nil is stored like a value
isTombstoneNever(v) == FALSE

\* if v == nil
isTombstone(v) == v.t = "null"

RECURSIVE deepMerge(_, _, _), mergeKeys(_, _, _, _)
\* deepMerge(dst, src): the heap after the call and the address of the
\* map it returns
deepMerge(h, dst, src) ==
    LET c == copyMap(h, dst)
    IN  mergeKeys(c.h, c.a, src, DOMAIN h[src].m)

\* the second loop of deepMerge, for k, v := range src, over the keys ks
\* still to visit.  Go visits a map's keys in no fixed order; the keys are
\* handled independently of each other, so that one order stands for all.
mergeKeys(h, res, src, ks) ==
    IF ks = {} THEN [h |-> h, a |-> res]
    ELSE
      LET k == CHOOSE x \in ks : TRUE
          v == h[src].m[k]
          old == MapGet(h[res].m, k)
          h2 == IF isTombstone(v) THEN Remove(h, res, k)
                ELSE IF v.t = "map"
                THEN IF old.t = "map"
                     THEN LET sub == deepMerge(h, old.a, v.a)
                          IN  Store(sub.h, res, k, MapRef(sub.a))
                     ELSE replaceValue(h, res, k, v)
                ELSE replaceValue(h, res, k, v)
      IN  mergeKeys(h2, res, src, ks \ {k})

----------------------------------------------------------------------------
(* Strings.  A Go string that the code takes apart (a pointer, a dot-path)  *)
(* is a sequence of one-character strings; a map key is a TLA+ string.      *)

\* string(cs): the characters as one string
RECURSIVE Join(_)
Join(cs) == IF cs = <<>> THEN "" ELSE Head(cs) \o Join(Tail(cs))

\* strings.TrimPrefix(s, c) for a one-character prefix c
TrimPrefix(s, c) == IF s # <<>> /\ Head(s) = c THEN Tail(s) ELSE s

\* strings.Split(s, c) for a one-character separator c: the pieces between
\* the separators, empty pieces included (one empty piece for "")
RECURSIVE SplitFrom(_, _, _, _)
SplitFrom(s, c, n, piece) ==
    IF n > Len(s) THEN <<piece>>
    ELSE IF s[n] = c THEN <<piece>> \o SplitFrom(s, c, n + 1, <<>>)
    ELSE SplitFrom(s, c, n + 1, Append(piece, s[n]))

Split(s, c) == SplitFrom(s, c, 1, <<>>)

DigitValue ==
    [c \in {"0", "1", "2", "3", "4", "5", "6", "7", "8", "9"} |->
        CASE c = "0" -> 0 [] c = "1" -> 1 [] c = "2" -> 2 [] c = "3" -> 3
          [] c = "4" -> 4 [] c = "5" -> 5 [] c = "6" -> 6 [] c = "7" -> 7
          [] c = "8" -> 8 [] c = "9" -> 9]

\* the characters fmt's %d scan accepts after the sign: "0123456789_"
ScanDigits == DOMAIN DigitValue \cup {"_"}

\* length of the longest prefix of cs made of characters of set
RECURSIVE PrefixLen(_, _)
PrefixLen(cs, set) ==
    IF cs # <<>> /\ Head(cs) \in set THEN 1 + PrefixLen(Tail(cs), set) ELSE 0

\* strconv.ParseInt(ds, 10, 64) of plain digits, most significant first
RECURSIVE Decimal(_, _)
Decimal(ds, acc) ==
    IF ds = <<>> THEN acc ELSE Decimal(Tail(ds), 10 * acc + DigitValue[Head(ds)])

\* fmt.Sscanf(segment, "%d", &idx): leading spaces are skipped, one sign is
\* accepted, then the longest run of "0123456789_" is read and parsed in
\* base 10 (an underscore makes the parse fail); what follows is ignored.
Sscanf(segment) ==
    LET s1 == SubSeq(segment, PrefixLen(segment, {" "}) + 1, Len(segment))
        neg == s1 # <<>> /\ Head(s1) = "-"
        s2 == IF s1 # <<>> /\ Head(s1) \in {"+", "-"} THEN Tail(s1) ELSE s1
        tok == SubSeq(s2, 1, PrefixLen(s2, ScanDigits))
    IN  IF tok = <<>> \/ \E n \in 1..Len(tok) : tok[n] = "_"
        THEN [ok |-> FALSE, n |-> 0]
        ELSE [ok |-> TRUE,
              n |-> IF neg THEN 0 - Decimal(tok, 0) ELSE Decimal(tok, 0)]

----------------------------------------------------------------------------
(* The pointer patch engine.  Indices are Go's: the first element is 0.     *)

\* parseArrayIndex(segment, arrLen): "-" is the position one past the end
parseArrayIndex(segment, arrLen) ==
    IF segment = <<"-">> THEN arrLen
    ELSE LET r == Sscanf(segment) IN IF r.ok THEN r.n ELSE -1

\* newArr := make([]interface{}, len(arr)); copy(newArr, arr);
\* newArr[idx] = v; result[key] = newArr
storeElement(h, res, key, arr, idx, v) ==
    LET n == New(h, SliceCell([arr EXCEPT ![idx + 1] = v]))
    IN  Store(n.h, res, key, SliceRef(n.a))

\* setPath's terminal test for replace passing when the key is missing
keyMissingNever(m, key, allowAdd) == FALSE

\* !allowAdd and no result[key]
keyMissing(m, key, allowAdd) == ~allowAdd /\ key \notin DOMAIN m

\* the intermediate map made for replace as well
createsMissingAlways(allowAdd) == TRUE

\* if allowAdd { next = make(map[string]interface{}); result[key] = next }
createsMissing(allowAdd) == allowAdd

RECURSIVE setPath(_, _, _, _, _)
\* setPath(doc, parts, value, allowAdd): the heap after the call, the
\* address of the map returned and the error
setPath(h, d, parts, value, allowAdd) ==
    IF Len(parts) = 0 THEN [h |-> h, a |-> d, err |-> "nil"]
    ELSE
      LET c == copyMap(h, d)
          res == c.a
          key == Join(parts[1])
          old == MapGet(c.h[res].m, key)
          fail(hh, e) == [h |-> hh, a |-> res, err |-> e]
          done(hh) == [h |-> hh, a |-> res, err |-> "nil"]
      IN
        IF Len(parts) = 1 THEN
          IF parts[1] = <<"-">> THEN fail(c.h, "append only valid for arrays")
          ELSE IF keyMissing(c.h[res].m, key, allowAdd)
          THEN fail(c.h, "path does not exist")
          ELSE done(Store(c.h, res, key, value))
        ELSE IF old.t = "map" THEN
          LET sub == setPath(c.h, old.a, Tail(parts), value, allowAdd)
          IN  IF sub.err # "nil" THEN fail(sub.h, sub.err)
              ELSE done(Store(sub.h, res, key, MapRef(sub.a)))
        ELSE IF old.t = "slice" THEN
          LET arr == c.h[old.a].s
              idx == parseArrayIndex(parts[2], Len(arr))
          IN  IF idx < 0 \/ idx >= Len(arr)
              THEN fail(c.h, "array index out of bounds")
              ELSE IF arr[idx + 1].t = "map" THEN
                LET sub == setPath(c.h, arr[idx + 1].a,
                                   SubSeq(parts, 3, Len(parts)), value, allowAdd)
                IN  IF sub.err # "nil" THEN fail(sub.h, sub.err)
                    ELSE done(storeElement(sub.h, res, key, arr, idx,
                                           MapRef(sub.a)))
              ELSE IF Len(parts) = 2
              THEN done(storeElement(c.h, res, key, arr, idx, value))
              ELSE fail(c.h, "cannot navigate through non-object array element")
        ELSE IF createsMissing(allowAdd) THEN
          LET n == New(c.h, MapCell(EmptyMap))
              h1 == Store(n.h, res, key, MapRef(n.a))
              sub == setPath(h1, n.a, Tail(parts), value, allowAdd)
          IN  IF sub.err # "nil" THEN fail(sub.h, sub.err)
              ELSE done(Store(sub.h, res, key, MapRef(sub.a)))
        ELSE fail(c.h, "path does not exist")

\* removePath's terminal delete forgotten
deleteKeyNoop(h, res, key) == h

\* delete(result, key)
deleteKey(h, res, key) == Remove(h, res, key)

RECURSIVE removePath(_, _, _)
\* removePath(doc, parts)
removePath(h, d, parts) ==
    IF Len(parts) = 0 THEN [h |-> h, a |-> d, err |-> "nil"]
    ELSE
      LET c == copyMap(h, d)
          res == c.a
          key == Join(parts[1])
          old == MapGet(c.h[res].m, key)
          fail(hh, e) == [h |-> hh, a |-> res, err |-> e]
          done(hh) == [h |-> hh, a |-> res, err |-> "nil"]
      IN
        IF Len(parts) = 1 THEN
          IF key \notin DOMAIN c.h[res].m THEN fail(c.h, "path does not exist")
          ELSE done(deleteKey(c.h, res, key))
        ELSE IF old.t = "map" THEN
          LET sub == removePath(c.h, old.a, Tail(parts))
          IN  IF sub.err # "nil" THEN fail(sub.h, sub.err)
              ELSE done(Store(sub.h, res, key, MapRef(sub.a)))
        ELSE IF old.t = "slice" THEN
          LET arr == c.h[old.a].s
              idx == parseArrayIndex(parts[2], Len(arr))
          IN  IF idx < 0 \/ idx >= Len(arr)
              THEN fail(c.h, "array index out of bounds")
              ELSE IF Len(parts) = 2 THEN
                LET n == New(c.h, SliceCell(SubSeq(arr, 1, idx)
                                   \o SubSeq(arr, idx + 2, Len(arr))))
                IN  done(Store(n.h, res, key, SliceRef(n.a)))
              ELSE IF arr[idx + 1].t = "map" THEN
                LET sub == removePath(c.h, arr[idx + 1].a,
                                      SubSeq(parts, 3, Len(parts)))
                IN  IF sub.err # "nil" THEN fail(sub.h, sub.err)
                    ELSE done(storeElement(sub.h, res, key, arr, idx,
                                           MapRef(sub.a)))
              ELSE fail(c.h, "cannot navigate through non-object array element")
        ELSE fail(c.h, "path does not exist or is not an object")

\* path == "" || path == "/"
IsRootPath(p) == p = <<>> \/ p = <<"/">>

\* strings.Split(strings.TrimPrefix(path, "/"), "/")
PathParts(p) == Split(TrimPrefix(p, "/"), "/")

jsonPatchAdd(h, d, p, value) ==
    IF IsRootPath(p) THEN [h |-> h, a |-> d, err |-> "cannot add to root path"]
    ELSE setPath(h, d, PathParts(p), value, TRUE)

jsonPatchRemove(h, d, p) ==
    IF IsRootPath(p) THEN [h |-> h, a |-> d, err |-> "cannot remove root path"]
    ELSE removePath(h, d, PathParts(p))

jsonPatchReplace(h, d, p, value) ==
    IF IsRootPath(p)
    THEN [h |-> h, a |-> d, err |-> "cannot replace root path"]
    ELSE setPath(h, d, PathParts(p), value, FALSE)

\* an element of the decoded patch list that is no object
NotAnObject == [isObject |-> FALSE, op |-> "", path |-> <<>>, value |-> Null]

\* an element {"op": o, "path": p, "value": v}; a missing or non-string op
\* or path reads as "", a missing value as nil
Operation(o, p, v) == [isObject |-> TRUE, op |-> o, path |-> p, value |-> v]

\* the body of applyJSONPatch's loop up to its error test, for the element
\* op whose decoded value is val: the heap, the map assigned to current
\* and the error
applyOperation(h, cur, op, val) ==
    IF ~op.isObject
    THEN [h |-> h, a |-> cur, err |-> "invalid operation: expected object"]
    ELSE CASE op.op = "add" -> jsonPatchAdd(h, cur, op.path, val)
           [] op.op = "remove" -> jsonPatchRemove(h, cur, op.path)
           [] op.op = "replace" -> jsonPatchReplace(h, cur, op.path, val)
           [] op.op \in {"copy", "move", "test"} ->
                [h |-> h, a |-> cur, err |-> "operation not yet implemented"]
           [] OTHER -> [h |-> h, a |-> cur, err |-> "unknown operation"]

\* the loop's error test never taken: the loop goes on after a failure
opFailedNever(e) == FALSE

\* if err != nil, and the returns inside the switch
opFailed(e) == e # "nil"

----------------------------------------------------------------------------
(* The dot-path read of the wait command.                                   *)

\* the map step keeping current when the key is missing
lookupPartKeep(h, cur, key) ==
    IF key \in DOMAIN h[cur.a].m THEN h[cur.a].m[key] ELSE cur

\* case map[string]interface{}: current = v[part]
lookupPart(h, cur, key) == MapGet(h[cur.a].m, key)

\* the test for an empty part never taken: "" is looked up as a key
isEmptyPartNever(part) == FALSE

\* if part == "" { continue }
isEmptyPart(part) == part = <<>>

\* a part asked of a value that is no map yields that value
notNavigableKeep(cur) == cur

\* default: return nil
notNavigable(cur) == Null

\* the loop of evaluateSimpleJSONPath from the n-th part on
RECURSIVE walkParts(_, _, _, _)
walkParts(h, cur, parts, n) ==
    IF n > Len(parts) THEN cur
    ELSE IF isEmptyPart(parts[n]) THEN walkParts(h, cur, parts, n + 1)
    ELSE IF cur.t = "map"
    THEN walkParts(h, lookupPart(h, cur, Join(parts[n])), parts, n + 1)
    ELSE notNavigable(cur)

\* evaluateSimpleJSONPath(data, path)
evaluateSimpleJSONPath(h, data, p) ==
    walkParts(h, data, Split(TrimPrefix(p, "."), "."), 1)

----------------------------------------------------------------------------
(* The selector engine of the get command.                                  *)

\* the loop of getFieldValue from the n-th part on
RECURSIVE fieldParts(_, _, _, _)
fieldParts(h, cur, parts, n) ==
    IF n > Len(parts) THEN cur
    ELSE IF isEmptyPart(parts[n]) THEN fieldParts(h, cur, parts, n + 1)
    ELSE IF cur.t = "map"
    THEN fieldParts(h, MapGet(h[cur.a].m, Join(parts[n])), parts, n + 1)
    ELSE Null

\* getFieldValue(resource, path)
getFieldValue(h, resource, p) == fieldParts(h, resource, Split(p, "."), 1)

\* the white space strings.TrimSpace cuts
Space == {" ", "\t", "\n", "\r"}

\* strings.Trim(s, cutset): the characters of cutset cut from both ends
RECURSIVE TrimRight(_, _)
TrimRight(s, cutset) ==
    IF s # <<>> /\ s[Len(s)] \in cutset
    THEN TrimRight(SubSeq(s, 1, Len(s) - 1), cutset) ELSE s

Trim(s, cutset) ==
    TrimRight(SubSeq(s, PrefixLen(s, cutset) + 1, Len(s)), cutset)

TrimSpace(s) == Trim(s, Space)

\* strings.HasPrefix(s, prefix)
HasPrefix(s, prefix) ==
    Len(s) >= Len(prefix) /\ SubSeq(s, 1, Len(prefix)) = prefix

\* strings.Index(s, sub): the offset of the first sub in s, -1 for none
Index(s, sub) ==
    LET at == {n \in 0..(Len(s) - Len(sub)) :
                  SubSeq(s, n + 1, n + Len(sub)) = sub}
    IN  IF at = {} THEN -1 ELSE CHOOSE n \in at : \A o \in at : n <= o

\* strings.Contains(s, sub)
Contains(s, sub) == Index(s, sub) >= 0

\* strings.SplitN(s, sep, 2): s cut at the first sep, s alone without one
SplitN2(s, sep) ==
    LET idx == Index(s, sep)
    IN  IF idx < 0 THEN <<s>>
        ELSE <<SubSeq(s, 1, idx), SubSeq(s, idx + Len(sep) + 1, Len(s))>>

\* the strings of cs, each as one string
Strings(cs) == [n \in 1..Len(cs) |-> Join(cs[n])]

\* for _, v := range strings.Split(valuesStr, ","): strings.TrimSpace(v)
TrimEach(cs) == [n \in 1..Len(cs) |-> TrimSpace(cs[n])]

\* every comma taken for a separator
atTopLevelAlways(depth) == TRUE

\* case ',': if depth == 0
atTopLevel(depth) == depth = 0

\* splitLabelSelector(selector) from the n-th character on, at the given
\* depth of parentheses and with the characters of current
RECURSIVE splitLabelFrom(_, _, _, _)
splitLabelFrom(s, n, depth, cur) ==
    IF n > Len(s) THEN (IF Len(cur) > 0 THEN <<cur>> ELSE <<>>)
    ELSE CASE s[n] = "(" -> splitLabelFrom(s, n + 1, depth + 1, Append(cur, s[n]))
           [] s[n] = ")" -> splitLabelFrom(s, n + 1, depth - 1, Append(cur, s[n]))
           [] s[n] = "," ->
                IF atTopLevel(depth)
                THEN <<cur>> \o splitLabelFrom(s, n + 1, depth, <<>>)
                ELSE splitLabelFrom(s, n + 1, depth, Append(cur, s[n]))
           [] OTHER -> splitLabelFrom(s, n + 1, depth, Append(cur, s[n]))

splitLabelSelector(selector) == splitLabelFrom(selector, 1, 0, <<>>)

\* a labelCondition; the key is kept as characters for the test key != ""
labelCondition(key, operator, values) ==
    [key |-> key, operator |-> operator, values |-> values]

\* the values of "in (...)" and "notin (...)": the text after the operator
setValues(valuesStr) ==
    Strings(TrimEach(Split(Trim(valuesStr, {" ", "(", ")"}), ",")))

\* the values of key=value, key==value and key!=value
oneValue(kv) == IF Len(kv) > 1 THEN <<Join(TrimSpace(kv[2]))>> ELSE <<>>

\* the body of parseLabelSelector's loop up to the test of the key: the
\* condition read from a trimmed, non-empty part
parseLabelPart(part) ==
    IF Contains(part, <<" ", "i", "n", " ", "(">>)
         \/ Contains(part, <<" ", "i", "n", "(">>)
    THEN LET idx == Index(part, <<" ", "i", "n">>)
         IN  labelCondition(TrimSpace(SubSeq(part, 1, idx)), "in",
                            setValues(SubSeq(part, idx + 4, Len(part))))
    ELSE IF Contains(part, <<" ", "n", "o", "t", "i", "n", " ", "(">>)
         \/ Contains(part, <<" ", "n", "o", "t", "i", "n", "(">>)
    THEN LET idx == Index(part, <<" ", "n", "o", "t", "i", "n">>)
         IN  labelCondition(TrimSpace(SubSeq(part, 1, idx)), "notin",
                            setValues(SubSeq(part, idx + 8, Len(part))))
    ELSE IF HasPrefix(part, <<"!">>)
    THEN labelCondition(TrimPrefix(part, "!"), "notexists", <<>>)
    ELSE IF Contains(part, <<"!", "=">>)
    THEN LET kv == SplitN2(part, <<"!", "=">>)
         IN  labelCondition(TrimSpace(kv[1]), "!=", oneValue(kv))
    ELSE IF Contains(part, <<"=", "=">>)
    THEN LET kv == SplitN2(part, <<"=", "=">>)
         IN  labelCondition(TrimSpace(kv[1]), "=", oneValue(kv))
    ELSE IF Contains(part, <<"=">>)
    THEN LET kv == SplitN2(part, <<"=">>)
         IN  labelCondition(TrimSpace(kv[1]), "=", oneValue(kv))
    ELSE labelCondition(part, "exists", <<>>)

\* the test of the key passing for an empty key
hasKeyAlways(key) == TRUE

\* if cond.key != "", if cond.path != ""
hasKey(key) == key # <<>>

\* the loop of parseLabelSelector from the n-th part on
RECURSIVE parseLabelParts(_, _)
parseLabelParts(parts, n) ==
    IF n > Len(parts) THEN <<>>
    ELSE LET part == TrimSpace(parts[n])
             rest == parseLabelParts(parts, n + 1)
         IN  IF part = <<>> THEN rest
             ELSE LET cond == parseLabelPart(part)
                  IN  IF hasKey(cond.key) THEN <<cond>> \o rest ELSE rest

parseLabelSelector(selector) ==
    parseLabelParts(splitLabelSelector(selector), 1)

\* the keys of the listed resources in the order fmt prints a map: sorted
KeyOrder == <<"env", "labels", "metadata", "name", "namespace">>

sortedKeys(m) == SelectSeq(KeyOrder, LAMBDA k : k \in DOMAIN m)

\* the strings of ss with one space between them
RECURSIVE Spaced(_)
Spaced(ss) ==
    IF ss = <<>> THEN ""
    ELSE IF Len(ss) = 1 THEN ss[1]
    ELSE ss[1] \o " " \o Spaced(Tail(ss))

\* fmt.Sprintf("%v", v)
RECURSIVE Sprintf(_, _)
Sprintf(h, v) ==
    CASE v.t = "null" -> "<nil>"
      [] v.t = "str" -> v.v
      [] v.t = "map" ->
           LET m == h[v.a].m
               ks == sortedKeys(m)
           IN  "map[" \o Spaced([n \in 1..Len(ks) |->
                                   ks[n] \o ":" \o Sprintf(h, m[ks[n]])]) \o "]"
      [] v.t = "slice" ->
           LET s == h[v.a].s
           IN  "[" \o Spaced([n \in 1..Len(s) |-> Sprintf(h, s[n])]) \o "]"

\* for k, v := range labels { result[k] = fmt.Sprintf("%v", v) } for a value
\* that is a map, nothing for any other value
labelsOf(h, v) ==
    IF v.t = "map" THEN [k \in DOMAIN h[v.a].m |-> Sprintf(h, h[v.a].m[k])]
    ELSE [k \in {} |-> ""]

\* extractLabelsMap(resource): the entries of metadata.labels are written
\* first, the entries of the top-level labels are written over them
extractLabelsMap(h, resource) ==
    LET metadata == MapGet(h[resource.a].m, "metadata")
        first == IF metadata.t = "map"
                 THEN labelsOf(h, MapGet(h[metadata.a].m, "labels"))
                 ELSE [k \in {} |-> ""]
        second == labelsOf(h, MapGet(h[resource.a].m, "labels"))
    IN  [k \in DOMAIN first \cup DOMAIN second |->
            IF k \in DOMAIN second THEN second[k] ELSE first[k]]

\* value == v for some v of cond.values
amongValues(value, values) == \E n \in 1..Len(values) : value = values[n]

\* the case "!=" without its comparison: only a missing key passes
differsNever(value, values) == FALSE

\* len(cond.values) > 0 && value != cond.values[0]
differs(value, values) == Len(values) > 0 /\ value # values[1]

\* matchesLabelCondition(labels, cond)
matchesLabelCondition(labels, cond) ==
    LET key == Join(cond.key)
        exists == key \in DOMAIN labels
        value == IF exists THEN labels[key] ELSE ""
    IN  CASE cond.operator \in {"=", "=="} ->
               exists /\ Len(cond.values) > 0 /\ value = cond.values[1]
          [] cond.operator = "!=" ->
               ~exists \/ differs(value, cond.values)
          [] cond.operator = "in" -> exists /\ amongValues(value, cond.values)
          [] cond.operator = "notin" ->
               ~exists \/ ~amongValues(value, cond.values)
          [] cond.operator = "exists" -> exists
          [] cond.operator = "notexists" -> ~exists
          [] OTHER -> TRUE

\* one condition that holds is enough
matchesAnyLabelCondition(labels, conditions) ==
    \E n \in 1..Len(conditions) : matchesLabelCondition(labels, conditions[n])

\* matchesLabelConditions(labels, conditions)
matchesLabelConditions(labels, conditions) ==
    \A n \in 1..Len(conditions) : matchesLabelCondition(labels, conditions[n])

\* filtered = append(filtered, item)
keepItem(filtered, item) == Append(filtered, item)

\* the loop of filterByLabelSelector from the n-th item on
RECURSIVE filterLabelItems(_, _, _, _, _)
filterLabelItems(h, items, conditions, n, filtered) ==
    IF n > Len(items) THEN filtered
    ELSE filterLabelItems(h, items, conditions, n + 1,
           IF items[n].t = "map"
                /\ matchesLabelConditions(extractLabelsMap(h, items[n]),
                                          conditions)
           THEN keepItem(filtered, items[n]) ELSE filtered)

\* result["items"] = filtered: the slice header filtered is stored in the
\* caller's map (a nil slice when nothing was kept: no elements)
storeItems(h, result, filtered) ==
    LET n == New(h, SliceCell(filtered))
    IN  Store(n.h, result.a, "items", SliceRef(n.a))

\* filterByLabelSelector(result, selector): the heap after the call; the map
\* returned is result itself
filterByLabelSelector(h, result, selector) ==
    LET items == MapGet(h[result.a].m, "items")
        conditions == parseLabelSelector(selector)
    IN  IF items.t # "slice" THEN h
        ELSE IF Len(conditions) = 0 THEN h
        ELSE storeItems(h, result,
               filterLabelItems(h, h[items.a].s, conditions, 1, <<>>))

\* a fieldCondition; an operator that was not assigned is ""
fieldCondition(path, operator, value) ==
    [path |-> path, operator |-> operator, value |-> value]

\* cond.value of path=value and path!=value
fieldValue(kv) == IF Len(kv) > 1 THEN Join(TrimSpace(kv[2])) ELSE ""

\* the body of parseFieldSelector's loop up to the test of the path
parseFieldPart(part) ==
    IF Contains(part, <<"!", "=">>)
    THEN LET kv == SplitN2(part, <<"!", "=">>)
         IN  fieldCondition(TrimSpace(kv[1]), "!=", fieldValue(kv))
    ELSE IF Contains(part, <<"=">>)
    THEN LET kv == SplitN2(part, <<"=">>)
         IN  fieldCondition(TrimSpace(kv[1]), "=", fieldValue(kv))
    ELSE fieldCondition(<<>>, "", "")

\* the loop of parseFieldSelector from the n-th part on
RECURSIVE parseFieldParts(_, _)
parseFieldParts(parts, n) ==
    IF n > Len(parts) THEN <<>>
    ELSE LET part == TrimSpace(parts[n])
             rest == parseFieldParts(parts, n + 1)
         IN  IF part = <<>> THEN rest
             ELSE LET cond == parseFieldPart(part)
                  IN  IF hasKey(cond.path) THEN <<cond>> \o rest ELSE rest

parseFieldSelector(selector) == parseFieldParts(Split(selector, ","), 1)

\* the case "!=" asking for a value that is there
fieldDiffersPresent(value, valueStr, condValue) ==
    value # Null /\ valueStr # condValue

\* value == nil || valueStr != cond.value
fieldDiffers(value, valueStr, condValue) ==
    value = Null \/ valueStr # condValue

\* matchesFieldCondition(resource, cond)
matchesFieldCondition(h, resource, cond) ==
    LET value == getFieldValue(h, resource, cond.path)
        valueStr == Sprintf(h, value)
    IN  CASE cond.operator = "=" -> value # Null /\ valueStr = cond.value
          [] cond.operator = "!=" -> fieldDiffers(value, valueStr, cond.value)
          [] OTHER -> TRUE

\* matchesFieldConditions(resource, conditions)
matchesFieldConditions(h, resource, conditions) ==
    \A n \in 1..Len(conditions) :
        matchesFieldCondition(h, resource, conditions[n])

\* the loop of filterByFieldSelector from the n-th item on
RECURSIVE filterFieldItems(_, _, _, _, _)
filterFieldItems(h, items, conditions, n, filtered) ==
    IF n > Len(items) THEN filtered
    ELSE filterFieldItems(h, items, conditions, n + 1,
           IF items[n].t = "map"
                /\ matchesFieldConditions(h, items[n], conditions)
           THEN keepItem(filtered, items[n]) ELSE filtered)

\* filterByFieldSelector(result, selector)
filterByFieldSelector(h, result, selector) ==
    LET items == MapGet(h[result.a].m, "items")
        conditions == parseFieldSelector(selector)
    IN  IF items.t # "slice" THEN h
        ELSE IF Len(conditions) = 0 THEN h
        ELSE storeItems(h, result,
               filterFieldItems(h, h[items.a].s, conditions, 1, <<>>))

----------------------------------------------------------------------------
(* Inputs.                                                                  *)

\* no get command runs
NoGet ==
    /\ labelSelector = <<>>
    /\ fieldSelector = <<>>
    /\ allNamespaces = FALSE
    /\ printed = <<>>

\* no wait and no apply command runs
NoNet ==
    /\ waitFor = <<>>
    /\ waitTimeout = 0
    /\ condition = <<>>
    /\ expectedValue = <<>>
    /\ clock = 0
    /\ response = [kind |-> "none"]
    /\ replaceOnly = FALSE
    /\ dryRun = FALSE
    /\ requests = <<>>

\* times the same merge patch is applied in a row
MaxApply == 2

\* all objects with keys among ks and values among vs
Objects(ks, vs) == {Obj(m) : m \in UNION {[s -> vs] : s \in SUBSET ks}}

MergeKeys == {"a", "b"}
MergeLeaves == {Null, Str("v")}
MergeInner == Objects(MergeKeys, MergeLeaves)
MergeValues == MergeLeaves \cup MergeInner
                 \cup {Arr(<<Str("v")>>), Arr(<<Str("w"), Str("v")>>)}
MergeDocs == Objects(MergeKeys, MergeValues)

----------------------------------------------------------------------------
(* The merge path of runPatch: the current resource and the patch are       *)
(* decoded, then merged; the merge is applied again to its own result.      *)

InitMerge ==
    /\ doc \in MergeDocs
    /\ patch \in MergeDocs
    /\ LET d == Decode(<<>>, doc)
           p == Decode(d.h, patch)
       IN  /\ heap = p.h
           /\ docRef = d.v
           /\ patchRef = <<p.v>>
    /\ pc = "decoded"
    /\ results = <<>>
    /\ current = Null
    /\ opIdx = 0
    /\ err = "nil"
    /\ sent = NoDoc
    /\ jsonPath = <<>>
    /\ waitValue = NoDoc
    /\ NoGet
    /\ NoNet

Merge ==
    /\ pc = "decoded"
    /\ LET r == deepMerge(heap, docRef.a, patchRef[1].a)
       IN  /\ heap' = r.h
           /\ results' = <<MapRef(r.a)>>
    /\ pc' = "merged"
    /\ UNCHANGED <<doc, docRef, patch, patchRef, current, opIdx, err, sent,
                   jsonPath, waitValue, getVars>>
    /\ UNCHANGED netVars

MergeAgain ==
    /\ pc = "merged"
    /\ Len(results) < MaxApply
    /\ LET r == deepMerge(heap, results[Len(results)].a, patchRef[1].a)
       IN  /\ heap' = r.h
           /\ results' = Append(results, MapRef(r.a))
    /\ UNCHANGED <<pc, doc, docRef, patch, patchRef, current, opIdx, err,
                   sent, jsonPath, waitValue, getVars>>
    /\ UNCHANGED netVars

NextMerge == Merge \/ MergeAgain

SpecMerge == InitMerge /\ [][NextMerge]_vars

----------------------------------------------------------------------------
(* The JSON patch path of runPatch: applyJSONPatch.                         *)

\* operations in one patch
MaxOps == 2

PatchDocs ==
    { Obj(EmptyMap),
      Obj([x |-> Str("v"), y |-> Str("v")]),
      Obj([x |-> Obj([y |-> Str("v")])]),
      Obj([s |-> Obj([d |-> Arr(<<Str("p"), Str("q")>>)])]),
      Obj([d |-> Arr(<<Str("p"), Obj([y |-> Str("v")])>>)]),
      Obj([x |-> Obj(EmptyMap), d |-> Arr(<<>>)]) }

PatchPaths ==
    { <<"/", "x", "/", "y">>,
      <<"/", "y">>,
      <<"/", "s", "/", "d", "/", "-">>,
      <<"/", "d", "/", "-">>,
      <<"/", "d", "/", "1", "/", "y">>,
      <<"/", "d", "/", "0">>,
      <<"/", "d", "/", "1">>,
      <<"/", "d", "/", "2">>,
      <<"/", "-">>,
      <<>> }

PatchOps ==
    {Operation(o, p, Str("w")) : o \in {"add", "replace"}, p \in PatchPaths}
      \cup {Operation("remove", p, Null) : p \in PatchPaths}
      \cup {Operation("add", <<"/", "x">>, Obj([y |-> Str("w")]))}
      \cup {Operation("remove", <<"/", "d", "/", "0", "x">>, Null)}
      \cup {Operation(o, <<"/", "y">>, Str("w")) :
               o \in {"copy", "move", "test", "frob"}}
      \cup {NotAnObject}

PatchLists == UNION {[1..n -> PatchOps] : n \in 0..MaxOps}

\* json.Unmarshal of the patch text: the values of the operations, in order
RECURSIVE DecodeValues(_, _, _, _)
DecodeValues(h, ops, n, acc) ==
    IF n > Len(ops) THEN [h |-> h, vs |-> acc]
    ELSE LET r == Decode(h, ops[n].value)
         IN  DecodeValues(r.h, ops, n + 1, Append(acc, r.v))

InitPatch ==
    /\ doc \in PatchDocs
    /\ patch \in PatchLists
    /\ LET p == DecodeValues(<<>>, patch, 1, <<>>)
       IN  /\ heap = p.h
           /\ patchRef = p.vs
    /\ docRef = Null
    /\ pc = "start"
    /\ results = <<>>
    /\ current = Null
    /\ opIdx = 0
    /\ err = "nil"
    /\ sent = NoDoc
    /\ jsonPath = <<>>
    /\ waitValue = NoDoc
    /\ NoGet
    /\ NoNet

\* --dry-run: the patch is printed and nothing is read or sent
PatchDryRun ==
    /\ pc = "start"
    /\ pc' = "dryrun"
    /\ UNCHANGED <<heap, doc, docRef, patch, patchRef, results, current,
                   opIdx, err, sent, jsonPath, waitValue, getVars>>
    /\ UNCHANGED netVars

\* no client, a failed GET, an error response or an undecodable body
PatchGetFails ==
    /\ pc = "start"
    /\ \E e \in {"no client", "failed to get", "api error", "failed to decode"} :
          err' = e
    /\ pc' = "failed"
    /\ UNCHANGED <<heap, doc, docRef, patch, patchRef, results, current,
                   opIdx, sent, jsonPath, waitValue, getVars>>
    /\ UNCHANGED netVars

\* the current resource is read and decoded
PatchGet ==
    /\ pc = "start"
    /\ LET r == Decode(heap, doc)
       IN  /\ heap' = r.h
           /\ docRef' = r.v
           /\ current' = r.v
    /\ pc' = "loop"
    /\ UNCHANGED <<doc, patch, patchRef, results, opIdx, err, sent, jsonPath,
                   waitValue, getVars>>
    /\ UNCHANGED netVars

\* one turn of the loop over the patch
PatchApplyOp ==
    /\ pc = "loop"
    /\ opIdx < Len(patch)
    /\ LET r == applyOperation(heap, current.a, patch[opIdx + 1],
                              patchRef[opIdx + 1])
       IN  /\ heap' = r.h
           /\ current' = MapRef(r.a)
           /\ IF opFailed(r.err)
              THEN pc' = "failed" /\ err' = r.err /\ opIdx' = opIdx
              ELSE pc' = "loop" /\ err' = err /\ opIdx' = opIdx + 1
    /\ UNCHANGED <<doc, docRef, patch, patchRef, results, sent, jsonPath,
                   waitValue, getVars>>
    /\ UNCHANGED netVars

\* after the loop: the PUT of current, which the transport or the service
\* may fail
PatchPut ==
    /\ pc = "loop"
    /\ opIdx = Len(patch)
    /\ sent' = Encode(heap, current)
    /\ \E e \in {"nil", "failed to patch", "api error"} :
          /\ err' = e
          /\ pc' = IF e = "nil" THEN "done" ELSE "failed"
    /\ UNCHANGED <<heap, doc, docRef, patch, patchRef, results, current,
                   opIdx, jsonPath, waitValue, getVars>>
    /\ UNCHANGED netVars

NextPatch ==
    PatchDryRun \/ PatchGetFails \/ PatchGet \/ PatchApplyOp \/ PatchPut

SpecPatch == InitPatch /\ [][NextPatch]_vars

----------------------------------------------------------------------------
(* The path read of waitForJSONPath: the resource is decoded and the path   *)
(* is evaluated on it.                                                      *)

\* elements of the array items
MaxItems == 3

ItemElems == {Obj([name |-> Str("a")]), Obj(EmptyMap), Obj([name |-> Str("c")])}
ItemSeqs == UNION {[1..n -> ItemElems] : n \in 0..MaxItems}

\* a key that literally is "items[*]"
StarKey == "items[*]"

\* a key that literally is "items[0]"
IndexKey == "items[0]"

WaitDocs ==
    {Obj([items |-> Arr(s)]) : s \in ItemSeqs}
      \cup {Obj(MapPut([items |-> Arr(s)], k, v)) :
               s \in ItemSeqs, k \in {StarKey, IndexKey},
               v \in {Obj([name |-> Str("z")]), Str("z")}}
      \cup {Obj([status |-> Obj([state |-> Str("active")])])}

PathItemsStarName ==
    <<"i", "t", "e", "m", "s", "[", "*", "]", ".", "n", "a", "m", "e">>

PathItemsIndexName ==
    <<"i", "t", "e", "m", "s", "[", "0", "]", ".", "n", "a", "m", "e">>

WaitPaths ==
    { PathItemsStarName,
      PathItemsIndexName,
      <<".">> \o PathItemsStarName,
      <<"i", "t", "e", "m", "s">>,
      <<"i", "t", "e", "m", "s", ".", "n", "a", "m", "e">>,
      <<".", "s", "t", "a", "t", "u", "s", ".", "s", "t", "a", "t", "e">>,
      <<"s", "t", "a", "t", "u", "s", ".", ".", "s", "t", "a", "t", "e">>,
      <<".">>,
      <<>> }

InitWait ==
    /\ doc \in WaitDocs
    /\ jsonPath \in WaitPaths
    /\ LET d == Decode(<<>>, doc)
       IN  heap = d.h /\ docRef = d.v
    /\ pc = "poll"
    /\ patch = <<>>
    /\ patchRef = <<>>
    /\ results = <<>>
    /\ current = Null
    /\ opIdx = 0
    /\ err = "nil"
    /\ sent = NoDoc
    /\ waitValue = NoDoc
    /\ NoGet
    /\ NoNet

EvaluatePath ==
    /\ pc = "poll"
    /\ waitValue' = evaluateSimpleJSONPath(heap, docRef, jsonPath)
    /\ pc' = "evaluated"
    /\ UNCHANGED <<heap, doc, docRef, patch, patchRef, results, current,
                   opIdx, err, sent, jsonPath, getVars>>
    /\ UNCHANGED netVars

NextWait == EvaluatePath

SpecWait == InitWait /\ [][NextWait]_vars

----------------------------------------------------------------------------
(* The list path of runGet: the list is read and decoded, filtered by the   *)
(* label selector, then by the field selector, and printed.                 *)

\* items in one list response
MaxList == 2

Env == <<"e", "n", "v">>
Prod == <<"p", "r", "o", "d">>
Staging == <<"s", "t", "a", "g", "i", "n", "g">>
Dev == <<"d", "e", "v">>
MetadataNamespace ==
    <<"m", "e", "t", "a", "d", "a", "t", "a", ".", "n", "a", "m", "e", "s", "p", "a", "c", "e">>
Default == <<"d", "e", "f", "a", "u", "l", "t">>

\* selector clauses as they are typed
SelEq(k, v) == k \o <<"=">> \o v
SelNe(k, v) == k \o <<"!", "=">> \o v
SelIn(k, vs) == k \o <<" ", "i", "n", " ", "(">> \o vs \o <<")">>
SelNotIn(k, vs) ==
    k \o <<" ", "n", "o", "t", "i", "n", " ", "(">> \o vs \o <<")">>
SelAnd(a, b) == a \o <<",">> \o b

\* the value lists of the set operators: "prod,staging" and "dev, prod"
ProdStaging == Prod \o <<",">> \o Staging
DevProd == Dev \o <<",", " ">> \o Prod
ValueLists == {ProdStaging, DevProd}

\* a label clause without a key
NoKeyClause == <<"=", "v">>

LabelSelectors ==
    {SelEq(Env, v) : v \in {Prod, Dev}}
      \cup {SelNe(Env, v) : v \in {Prod, Dev}}
      \cup {SelIn(Env, vs) : vs \in ValueLists}
      \cup {SelNotIn(Env, vs) : vs \in ValueLists}
      \cup {Env, <<"!">> \o Env}
      \cup {NoKeyClause, SelAnd(SelEq(Env, Prod), NoKeyClause),
            SelAnd(NoKeyClause, SelNotIn(Env, DevProd))}
      \cup {SelAnd(SelIn(Env, ProdStaging), SelNe(Env, Prod))}

\* field clauses without an operator, without a path
NoOperatorClause == MetadataNamespace
NoPathClause == <<"=">> \o Default

\* paths with an empty segment, through a scalar, with a broken bracket
PathEmptySegment ==
    <<"m", "e", "t", "a", "d", "a", "t", "a", ".", ".", "n", "a", "m", "e", "s", "p", "a", "c", "e">>
PathThroughScalar ==
    <<"m", "e", "t", "a", "d", "a", "t", "a", ".", "n", "a", "m", "e", ".", "f", "i", "r", "s", "t">>
PathBrokenBracket ==
    <<"m", "e", "t", "a", "d", "a", "t", "a", ".", "l", "a", "b", "e", "l", "s", "[", "0">>

MetadataName ==
    <<"m", "e", "t", "a", "d", "a", "t", "a", ".", "n", "a", "m", "e">>

FieldSelectors ==
    { SelEq(MetadataNamespace, Default),
      SelNe(MetadataNamespace, Default),
      NoOperatorClause,
      NoPathClause,
      SelAnd(SelEq(MetadataNamespace, Default), NoOperatorClause),
      SelAnd(NoPathClause, SelNe(MetadataNamespace, Default)),
      SelEq(PathEmptySegment, Default),
      SelNe(PathThroughScalar, Default),
      SelNe(PathBrokenBracket, Default),
      SelNe(<<".">>, Default),
      SelAnd(SelEq(MetadataNamespace, Default), SelNe(MetadataName, <<"a">>)) }

\* the flags: one selector, or both
SelectorFlags ==
    {<<l, <<>>>> : l \in LabelSelectors}
      \cup {<<<<>>, f>> : f \in FieldSelectors}
      \cup {<<l, f>> : l \in {SelEq(Env, Prod), SelNotIn(Env, ProdStaging)},
                       f \in {SelEq(MetadataNamespace, Default),
                              SelNe(MetadataNamespace, Default)}}

ListItems ==
    { Obj([metadata |-> Obj([name |-> Str("a"), namespace |-> Str("default"),
                             labels |-> Obj([env |-> Str("prod")])])]),
      Obj([metadata |-> Obj([name |-> Str("b"), namespace |-> Str("other"),
                             labels |-> Obj([env |-> Str("staging")])])]),
      Obj([metadata |-> Obj([name |-> Str("c"), namespace |-> Str("default"),
                             labels |-> Obj([env |-> Str("prod")])]),
           labels |-> Obj([env |-> Str("dev")])]),
      Obj([labels |-> Obj([env |-> Str("staging")])]),
      Obj([metadata |-> Obj([name |-> Str("e"), labels |-> Obj(EmptyMap)])]),
      Str("f") }

ListDocs ==
    {Obj([items |-> Arr(s)]) :
        s \in UNION {[1..n -> ListItems] : n \in 0..MaxList}}
      \cup {Obj(EmptyMap), Obj([items |-> Str("none")])}

InitGet ==
    /\ doc \in ListDocs
    /\ \E f \in SelectorFlags : labelSelector = f[1] /\ fieldSelector = f[2]
    /\ allNamespaces \in BOOLEAN
    /\ printed = <<>>
    /\ heap = <<>>
    /\ docRef = Null
    /\ pc = "get"
    /\ patch = <<>>
    /\ patchRef = <<>>
    /\ results = <<>>
    /\ current = Null
    /\ opIdx = 0
    /\ err = "nil"
    /\ sent = NoDoc
    /\ jsonPath = <<>>
    /\ waitValue = NoDoc
    /\ NoNet

\* items, ok := result["items"].([]interface{}): the items as trees, none
\* when result has no array items
itemsOf(tr) ==
    IF "items" \in DOMAIN tr.m /\ tr.m["items"].t = "arr"
    THEN tr.m["items"].s ELSE <<>>

\* the list GET fails, answers with an error or with an undecodable body
GetListFails ==
    /\ pc = "get"
    /\ ~allNamespaces
    /\ \E e \in {"failed to list", "api error", "failed to decode"} : err' = e
    /\ pc' = "failed"
    /\ UNCHANGED <<heap, doc, docRef, patch, patchRef, results, current,
                   opIdx, sent, jsonPath, waitValue, getVars>>
    /\ UNCHANGED netVars

\* client.Get and resp.DecodeJSON(&result)
GetList ==
    /\ pc = "get"
    /\ ~allNamespaces
    /\ LET r == Decode(heap, doc)
       IN  heap' = r.h /\ docRef' = r.v
    /\ pc' = "fetched"
    /\ UNCHANGED <<doc, patch, patchRef, results, current, opIdx, err, sent,
                   jsonPath, waitValue, getVars>>
    /\ UNCHANGED netVars

\* if labelSelector != "" { result = filterByLabelSelector(...) }
FilterByLabel ==
    /\ pc = "fetched"
    /\ heap' = IF labelSelector # <<>>
               THEN filterByLabelSelector(heap, docRef, labelSelector)
               ELSE heap
    /\ pc' = "labelled"
    /\ UNCHANGED <<doc, docRef, patch, patchRef, results, current, opIdx,
                   err, sent, jsonPath, waitValue, getVars>>
    /\ UNCHANGED netVars

\* if fieldSelector != "" { result = filterByFieldSelector(...) }
FilterByField ==
    /\ pc = "labelled"
    /\ heap' = IF fieldSelector # <<>>
               THEN filterByFieldSelector(heap, docRef, fieldSelector)
               ELSE heap
    /\ pc' = "filtered"
    /\ UNCHANGED <<doc, docRef, patch, patchRef, results, current, opIdx,
                   err, sent, jsonPath, waitValue, getVars>>
    /\ UNCHANGED netVars

\* printResourceList(result, rt, ns): the items of result are written
PrintList ==
    /\ pc = "filtered"
    /\ printed' = itemsOf(Encode(heap, docRef))
    /\ pc' = "printed"
    /\ UNCHANGED <<heap, doc, docRef, patch, patchRef, results, current,
                   opIdx, err, sent, jsonPath, waitValue, labelSelector,
                   fieldSelector, allNamespaces>>
    /\ UNCHANGED netVars

\* listAllNamespaces: the GET of the namespaces fails or cannot be decoded
ListNamespacesFails ==
    /\ pc = "get"
    /\ allNamespaces
    /\ \E e \in {"failed to list namespaces", "failed to decode"} : err' = e
    /\ pc' = "failed"
    /\ UNCHANGED <<heap, doc, docRef, patch, patchRef, results, current,
                   opIdx, sent, jsonPath, waitValue, getVars>>
    /\ UNCHANGED netVars

\* var listResp struct{ Items []map[string]interface{} }: the body decodes
\* when items is missing or is an array of objects
decodesAsList(tr) ==
    "items" \notin DOMAIN tr.m
      \/ (tr.m["items"].t = "arr"
            /\ \A n \in 1..Len(tr.m["items"].s) : tr.m["items"].s[n].t = "obj")

\* listAllNamespaces with one namespace holding the list doc: the list of
\* the namespace is read and decoded, and the name of each of its items is
\* written; a list that cannot be read or decoded is skipped
ListAllNamespaces ==
    /\ pc = "get"
    /\ allNamespaces
    /\ \E ok \in BOOLEAN :
          IF ok /\ decodesAsList(doc)
          THEN LET r == Decode(heap, doc)
               IN  /\ heap' = r.h
                   /\ docRef' = r.v
                   /\ printed' = itemsOf(doc)
          ELSE /\ printed' = <<>>
               /\ UNCHANGED <<heap, docRef>>
    /\ pc' = "printed"
    /\ UNCHANGED <<doc, patch, patchRef, results, current, opIdx, err, sent,
                   jsonPath, waitValue, labelSelector, fieldSelector,
                   allNamespaces>>
    /\ UNCHANGED netVars

\* watchResources with --watch for a list: the list is read and decoded
\* and printResourceList writes its items; no selector is looked at
WatchResources ==
    /\ pc = "get"
    /\ ~allNamespaces
    /\ LET r == Decode(heap, doc)
       IN  /\ heap' = r.h
           /\ docRef' = r.v
           /\ printed' = itemsOf(doc)
    /\ pc' = "printed"
    /\ UNCHANGED <<doc, patch, patchRef, results, current, opIdx, err, sent,
                   jsonPath, waitValue, labelSelector, fieldSelector,
                   allNamespaces>>
    /\ UNCHANGED netVars

NextGet ==
    GetListFails \/ GetList \/ FilterByLabel \/ FilterByField \/ PrintList
      \/ ListNamespacesFails \/ ListAllNamespaces \/ WatchResources

SpecGet == InitGet /\ [][NextGet]_vars

----------------------------------------------------------------------------
(* The commands that read a dot-path: wait or get runs.                     *)

----------------------------------------------------------------------------
(* The wait command: runWait and the polling loops waitForDeletion,         *)
(* waitForCondition and waitForJSONPath.  waitForResourceDeletion of the    *)
(* delete command is the loop of waitForDeletion with another message.      *)

\* resp, err := client.Get(ctx, path, nil): err != nil (no connection, the
\* context's five seconds over), or a response with a status and a body
TransportError == [kind |-> "error"]
Response(code, body) == [kind |-> "response", code |-> code, body |-> body]

\* resp.IsSuccess()
IsSuccess(r) == r.code >= 200 /\ r.code < 300

\* err == nil && resp.IsSuccess()
succeeded(r) == r.kind = "response" /\ IsSuccess(r)

\* resp.DecodeJSON(&result) into a map[string]interface{} gives no error
decodes(r) == r.body.t = "obj"

\* strings.TrimPrefix(s, prefix)
TrimPrefixString(s, prefix) ==
    IF HasPrefix(s, prefix) THEN SubSeq(s, Len(prefix) + 1, Len(s)) ELSE s

UpperCase ==
    <<"A", "B", "C", "D", "E", "F", "G", "H", "I", "J", "K", "L", "M", "N",
      "O", "P", "Q", "R", "S", "T", "U", "V", "W", "X", "Y", "Z">>
LowerCase ==
    <<"a", "b", "c", "d", "e", "f", "g", "h", "i", "j", "k", "l", "m", "n",
      "o", "p", "q", "r", "s", "t", "u", "v", "w", "x", "y", "z">>

\* the case folding of one character
Fold(c) ==
    IF \E n \in 1..Len(UpperCase) : UpperCase[n] = c
    THEN LowerCase[CHOOSE n \in 1..Len(UpperCase) : UpperCase[n] = c]
    ELSE c

\* strings.EqualFold(s, t)
EqualFold(s, t) ==
    Len(s) = Len(t) /\ \A n \in 1..Len(s) : Fold(s[n]) = Fold(t[n])

Delete ==
    <<"d", "e", "l", "e", "t", "e">>

ConditionPrefix ==
    <<"c", "o", "n", "d", "i", "t", "i", "o", "n", "=">>

JSONPathPrefix ==
    <<"j", "s", "o", "n", "p", "a", "t", "h", "=">>

Active ==
    <<"a", "c", "t", "i", "v", "e">>

Ready ==
    <<"r", "e", "a", "d", "y">>

\* the state names the service answers with, as characters
StateNames ==
    { Active,
      <<"A", "C", "T", "I", "V", "E">>,
      <<"p", "e", "n", "d", "i", "n", "g">> }

\* the characters of the string s of a document
Chars(s) == CHOOSE c \in StateNames : Join(c) = s

\* strings.EqualFold(state, condition) ||
\*     strings.EqualFold(state, "active") && strings.EqualFold(condition, "ready")
stateMatches(state, cond) ==
    \/ EqualFold(Chars(state), cond)
    \/ EqualFold(Chars(state), Active) /\ EqualFold(cond, Ready)

\* if state, ok := m["state"].(string); ok { if ... }
stateOf(h, m, cond) ==
    /\ MapGet(h[m.a].m, "state").t = "str"
    /\ stateMatches(MapGet(h[m.a].m, "state").v, cond)

\* cond["type"] == condition && cond["status"] == "True"
conditionTrue(h, c, cond) ==
    /\ c.t = "map"
    /\ MapGet(h[c.a].m, "type") = Str(Join(cond))
    /\ MapGet(h[c.a].m, "status") = Str("True")

\* the checks of waitForCondition on the decoded result
conditionMet(h, result, cond) ==
    LET status == MapGet(h[result.a].m, "status")
        conditions == IF status.t = "map"
                      THEN MapGet(h[status.a].m, "conditions") ELSE Null
        sysMeta == MapGet(h[result.a].m, "system_metadata")
    IN  \/ /\ conditions.t = "slice"
           /\ \E n \in 1..Len(h[conditions.a].s) :
                 conditionTrue(h, h[conditions.a].s[n], cond)
        \/ status.t = "map" /\ stateOf(h, status, cond)
        \/ sysMeta.t = "map" /\ stateOf(h, sysMeta, cond)

\* fmt.Sprintf("%v", value) == expectedValue
rendersExpected(h, value, expected) == Sprintf(h, value) = Join(expected)

\* the switch of runWait and the head of waitForJSONPath
parseFor(for) ==
    LET none == [pc |-> "done", condition |-> <<>>, jsonPath |-> <<>>,
                 expectedValue |-> <<>>, err |-> "nil"]
        expr == TrimPrefixString(for, JSONPathPrefix)
        parts == SplitN2(expr, <<"=">>)
    IN  IF for = Delete THEN [none EXCEPT !.pc = "waitForDeletion"]
        ELSE IF HasPrefix(for, ConditionPrefix)
        THEN [none EXCEPT !.pc = "waitForCondition",
                          !.condition = TrimPrefixString(for, ConditionPrefix)]
        ELSE IF HasPrefix(for, JSONPathPrefix)
        THEN IF Len(parts) # 2
             THEN [none EXCEPT !.err = "invalid jsonpath expression"]
             ELSE [none EXCEPT !.pc = "waitForJSONPath",
                               !.jsonPath = Trim(parts[1], {"'", "{", "}"}),
                               !.expectedValue = parts[2]]
        ELSE [none EXCEPT !.err = "invalid --for value"]

\* the longest --timeout, in seconds
MaxTimeout == 3

\* the longest time one turn of a polling loop takes, in seconds
MaxTurn == 2

\* the values of --for: delete, deleted, condition=Ready,
\* condition=pending, jsonpath={.status.state}=active,
\* jsonpath={.status.phase}=<nil>, jsonpath={.status.state}
WaitFors ==
    {
      <<"d", "e", "l", "e", "t", "e">>,
      <<"d", "e", "l", "e", "t", "e", "d">>,
      <<"c", "o", "n", "d", "i", "t", "i", "o", "n", "=", "R", "e",
        "a", "d", "y">>,
      <<"c", "o", "n", "d", "i", "t", "i", "o", "n", "=", "p", "e",
        "n", "d", "i", "n", "g">>,
      <<"j", "s", "o", "n", "p", "a", "t", "h", "=", "{", ".", "s",
        "t", "a", "t", "u", "s", ".", "s", "t", "a", "t", "e", "}",
        "=", "a", "c", "t", "i", "v", "e">>,
      <<"j", "s", "o", "n", "p", "a", "t", "h", "=", "{", ".", "s",
        "t", "a", "t", "u", "s", ".", "p", "h", "a", "s", "e", "}",
        "=", "<", "n", "i", "l", ">">>,
      <<"j", "s", "o", "n", "p", "a", "t", "h", "=", "{", ".", "s",
        "t", "a", "t", "u", "s", ".", "s", "t", "a", "t", "e", "}">> }

\* a condition of status.conditions
Condition(type, status) == Obj([type |-> Str(type), status |-> Str(status)])

\* the bodies of the successful responses; the last is no JSON object
PollBodies ==
    { Obj(EmptyMap),
      Obj([status |-> Obj([state |-> Str("active")])]),
      Obj([status |-> Obj([state |-> Str("pending")])]),
      Obj([system_metadata |-> Obj([state |-> Str("ACTIVE")])]),
      Obj([status |-> Obj([conditions |-> Arr(<<Condition("Ready", "True")>>)])]),
      Obj([status |-> Obj([conditions |-> Arr(<<Condition("Ready", "False")>>)])]),
      Str("x") }

\* what a GET of the resource may give
Responses ==
    {TransportError}
      \cup {Response(code, Null) : code \in {401, 403, 404, 500}}
      \cup {Response(200, body) : body \in PollBodies}

InitPoll ==
    /\ waitFor \in WaitFors
    /\ waitTimeout \in 1..MaxTimeout
    /\ condition = <<>>
    /\ expectedValue = <<>>
    /\ clock = 0
    /\ response = [kind |-> "none"]
    /\ replaceOnly = FALSE
    /\ dryRun = FALSE
    /\ requests = <<>>
    /\ pc = "wait"
    /\ heap = <<>>
    /\ doc = NoDoc
    /\ docRef = Null
    /\ patch = <<>>
    /\ patchRef = <<>>
    /\ results = <<>>
    /\ current = Null
    /\ opIdx = 0
    /\ err = "nil"
    /\ sent = NoDoc
    /\ jsonPath = <<>>
    /\ waitValue = NoDoc
    /\ NoGet

\* runWait up to the first turn of the loop it enters
RunWait ==
    /\ pc = "wait"
    /\ LET w == parseFor(waitFor)
       IN  /\ pc' = w.pc
           /\ condition' = w.condition
           /\ jsonPath' = w.jsonPath
           /\ expectedValue' = w.expectedValue
           /\ err' = w.err
    /\ UNCHANGED <<heap, doc, docRef, patch, patchRef, results, current, opIdx,
                   sent, waitValue, getVars, waitFor, waitTimeout, clock,
                   response, replaceOnly, dryRun, requests>>

\* if time.Now().After(deadline)
pastDeadline == clock > waitTimeout

\* return fmt.Errorf("timed out waiting for ...")
TimedOut ==
    /\ err' = "timed out"
    /\ pc' = "done"
    /\ UNCHANGED <<heap, doc, docRef, waitValue, clock, response>>

\* the turn ends with return nil when met, with <-ticker.C otherwise
EndOfTurn(met) ==
    /\ pc' = IF met THEN "done" ELSE pc
    /\ \E d \in 1..MaxTurn : clock' = IF met THEN clock ELSE clock + d
    /\ err' = err

\* var result map[string]interface{}; resp.DecodeJSON(&result)
DecodeResult(r) ==
    IF succeeded(r) /\ decodes(r)
    THEN LET d == Decode(<<>>, r.body)
         IN  heap' = d.h /\ docRef' = d.v /\ doc' = r.body
    ELSE UNCHANGED <<heap, doc, docRef>>

\* one turn of the loop of waitForDeletion
WaitForDeletion ==
    /\ pc = "waitForDeletion"
    /\ IF pastDeadline THEN TimedOut
       ELSE \E r \in Responses :
               /\ response' = r
               /\ EndOfTurn(r.kind = "error" \/ ~IsSuccess(r))
               /\ UNCHANGED <<heap, doc, docRef, waitValue>>
    /\ UNCHANGED <<patch, patchRef, results, current, opIdx, sent, jsonPath,
                   getVars, waitFor, waitTimeout, condition, expectedValue,
                   replaceOnly, dryRun, requests>>

\* one turn of the loop of waitForCondition
WaitForCondition ==
    /\ pc = "waitForCondition"
    /\ IF pastDeadline THEN TimedOut
       ELSE \E r \in Responses :
               /\ response' = r
               /\ DecodeResult(r)
               /\ EndOfTurn(/\ succeeded(r) /\ decodes(r)
                            /\ LET d == Decode(<<>>, r.body)
                               IN  conditionMet(d.h, d.v, condition))
               /\ UNCHANGED waitValue
    /\ UNCHANGED <<patch, patchRef, results, current, opIdx, sent, jsonPath,
                   getVars, waitFor, waitTimeout, condition, expectedValue,
                   replaceOnly, dryRun, requests>>

\* one turn of the loop of waitForJSONPath
WaitForJSONPath ==
    /\ pc = "waitForJSONPath"
    /\ IF pastDeadline THEN TimedOut
       ELSE \E r \in Responses :
               /\ response' = r
               /\ DecodeResult(r)
               /\ IF succeeded(r) /\ decodes(r)
                  THEN LET d == Decode(<<>>, r.body)
                           value == evaluateSimpleJSONPath(d.h, d.v, jsonPath)
                       IN  /\ waitValue' = value
                           /\ EndOfTurn(rendersExpected(d.h, value,
                                                        expectedValue))
                  ELSE UNCHANGED waitValue /\ EndOfTurn(FALSE)
    /\ UNCHANGED <<patch, patchRef, results, current, opIdx, sent, jsonPath,
                   getVars, waitFor, waitTimeout, condition, expectedValue,
                   replaceOnly, dryRun, requests>>

NextPoll == RunWait \/ WaitForDeletion \/ WaitForCondition \/ WaitForJSONPath

SpecPoll == InitPoll /\ [][NextPoll]_vars

\* every GET returns and the ticker keeps firing: a loop that can take a
\* turn takes it
SpecPollFair == SpecPoll /\ WF_vars(NextPoll)

----------------------------------------------------------------------------
(* The apply and replace commands: applyResource.                           *)

\* ResourceRegistry, with APIPath cut at the placeholder {namespace}
ResourceRegistry ==
    [http_loadbalancer |->
        [Name |-> "http_loadbalancer",
         APIPath |-> <<"/api/config/namespaces/", "/http_loadbalancers">>,
         Namespaced |-> TRUE],
     namespace |->
        [Name |-> "namespace",
         APIPath |-> <<"/api/web/namespaces">>,
         Namespaced |-> FALSE]]

\* ResourceAliasMap: the name, the plural, the short form and the aliases
ResourceAliasMap ==
    [n \in {"http_loadbalancer", "http_loadbalancers", "httplb", "http-lb",
            "http-loadbalancer", "hlb", "namespace", "namespaces", "ns"} |->
        IF n \in {"namespace", "namespaces", "ns"}
        THEN "namespace" ELSE "http_loadbalancer"]

\* a nil *ResourceType
NoType == [Name |-> "", APIPath |-> <<>>, Namespaced |-> FALSE]

\* ResolveResourceType(name)
ResolveResourceType(name) ==
    IF name \in DOMAIN ResourceAliasMap
    THEN ResourceRegistry[ResourceAliasMap[name]] ELSE NoType

\* replaceNamespace(path, namespace): the placeholder gives way to namespace
RECURSIVE replaceNamespace(_, _)
replaceNamespace(path, ns) ==
    IF Len(path) = 1 THEN path[1]
    ELSE path[1] \o ns \o replaceNamespace(Tail(path), ns)

\* rt.GetAPIPath(namespace)
GetAPIPath(rt, ns) ==
    IF ~rt.Namespaced THEN rt.APIPath[1]
    ELSE replaceNamespace(rt.APIPath, IF ns = "" THEN "default" ELSE ns)

\* rt.GetItemPath(namespace, name)
GetItemPath(rt, ns, name) == GetAPIPath(rt, ns) \o "/" \o name

\* extractResourceInfo(resource)
extractResourceInfo(resource) ==
    LET none == [kind |-> "", namespace |-> "", name |-> "", err |-> "nil"]
        kind == MapGet(resource.m, "kind")
        metadata == MapGet(resource.m, "metadata")
        name == MapGet(metadata.m, "name")
        ns == MapGet(metadata.m, "namespace")
    IN  IF kind.t # "str"
        THEN [none EXCEPT !.err = "resource missing 'kind' field"]
        ELSE IF metadata.t # "obj"
        THEN [none EXCEPT !.kind = kind.v,
                          !.err = "resource missing 'metadata' field"]
        ELSE IF name.t # "str"
        THEN [none EXCEPT !.kind = kind.v,
                          !.err = "resource missing 'metadata.name' field"]
        ELSE [none EXCEPT !.kind = kind.v, !.name = name.v,
                          !.namespace = IF ns.t = "str" THEN ns.v
                                        ELSE "default"]

\* a request of the client
Request(method, path) == [method |-> method, path |-> path]

\* a resource of the file, with its kind and its metadata
Resource(kind, metadata) == Obj([kind |-> Str(kind), metadata |-> metadata])

Resources ==
    { Resource("http_loadbalancer",
               Obj([name |-> Str("a"), namespace |-> Str("prod")])),
      Resource("httplb", Obj([name |-> Str("a")])),
      Resource("namespace", Obj([name |-> Str("n")])),
      Resource("gadget", Obj([name |-> Str("a")])),
      Resource("http_loadbalancer", Obj(EmptyMap)),
      Obj([kind |-> Str("http_loadbalancer")]),
      Obj([metadata |-> Obj([name |-> Str("a")])]) }

\* what the GET and the write of applyResource may give
ApplyResponses ==
    {TransportError} \cup {Response(code, Null) : code \in {200, 401, 403, 404, 500}}

InitApply ==
    /\ doc \in Resources
    /\ replaceOnly \in BOOLEAN
    /\ dryRun \in BOOLEAN
    /\ requests = <<>>
    /\ response = [kind |-> "none"]
    /\ waitFor = <<>>
    /\ waitTimeout = 0
    /\ condition = <<>>
    /\ expectedValue = <<>>
    /\ clock = 0
    /\ pc = "apply"
    /\ heap = <<>>
    /\ docRef = Null
    /\ patch = <<>>
    /\ patchRef = <<>>
    /\ results = <<>>
    /\ current = Null
    /\ opIdx = 0
    /\ err = "nil"
    /\ sent = NoDoc
    /\ jsonPath = <<>>
    /\ waitValue = NoDoc
    /\ NoGet

\* the resource type the resource names, NoType for none
TypeOf(resource) == ResolveResourceType(extractResourceInfo(resource).kind)

\* applyResource gets as far as its requests
Applicable(resource) ==
    extractResourceInfo(resource).err = "nil" /\ TypeOf(resource) # NoType

\* path := rt.GetItemPath(ns, name)
itemPath(resource) ==
    LET info == extractResourceInfo(resource)
    IN  GetItemPath(TypeOf(resource), info.namespace, info.name)

\* basePath := rt.GetAPIPath(ns)
basePath(resource) ==
    GetAPIPath(TypeOf(resource), extractResourceInfo(resource).namespace)

ApplyUnchanged ==
    UNCHANGED <<heap, doc, docRef, patch, patchRef, results, current, opIdx,
                jsonPath, waitValue, getVars, waitFor, waitTimeout, condition,
                expectedValue, clock, replaceOnly, dryRun>>

\* the resource has no kind, metadata or name, or its kind is not known
ApplyRejected ==
    /\ pc = "apply"
    /\ ~Applicable(doc)
    /\ err' = IF extractResourceInfo(doc).err # "nil"
              THEN extractResourceInfo(doc).err ELSE "unknown resource type"
    /\ pc' = "done"
    /\ UNCHANGED <<sent, response, requests>>
    /\ ApplyUnchanged

\* if dryRun { fmt.Printf("Would apply ..."); return nil }
ApplyDryRun ==
    /\ pc = "apply"
    /\ Applicable(doc)
    /\ dryRun
    /\ pc' = "done"
    /\ UNCHANGED <<err, sent, response, requests>>
    /\ ApplyUnchanged

\* resp, err := client.Get(ctx, path, nil)
ApplyGet ==
    /\ pc = "apply"
    /\ Applicable(doc)
    /\ ~dryRun
    /\ requests' = Append(requests, Request("GET", itemPath(doc)))
    /\ \E r \in ApplyResponses : response' = r
    /\ pc' = "got"
    /\ UNCHANGED <<err, sent>>
    /\ ApplyUnchanged

\* exists := err == nil && resp.IsSuccess()
exists(r) == succeeded(r)

\* if replaceOnly && !exists { return fmt.Errorf("... does not exist ...") }
ReplaceMissing ==
    /\ pc = "got"
    /\ replaceOnly /\ ~exists(response)
    /\ err' = "does not exist (use 'apply' to create)"
    /\ pc' = "done"
    /\ UNCHANGED <<sent, response, requests>>
    /\ ApplyUnchanged

\* what the write returned: the transport's error, resp.Error(), or nil
writeError(r, failure) ==
    IF r.kind = "error" THEN failure
    ELSE IF ~IsSuccess(r) THEN "api error" ELSE "nil"

\* resp, err := client.Put(ctx, path, resource)
ApplyPut ==
    /\ pc = "got"
    /\ exists(response)
    /\ requests' = Append(requests, Request("PUT", itemPath(doc)))
    /\ sent' = doc
    /\ \E r \in ApplyResponses : err' = writeError(r, "failed to update")
    /\ pc' = "done"
    /\ UNCHANGED response
    /\ ApplyUnchanged

\* resp, err := client.Post(ctx, basePath, resource)
ApplyPost ==
    /\ pc = "got"
    /\ ~exists(response) /\ ~replaceOnly
    /\ requests' = Append(requests, Request("POST", basePath(doc)))
    /\ sent' = doc
    /\ \E r \in ApplyResponses : err' = writeError(r, "failed to create")
    /\ pc' = "done"
    /\ UNCHANGED response
    /\ ApplyUnchanged

NextApply ==
    ApplyRejected \/ ApplyDryRun \/ ApplyGet \/ ReplaceMissing \/ ApplyPut
      \/ ApplyPost

SpecApply == InitApply /\ [][NextApply]_vars

InitRead == InitWait \/ InitGet

NextRead == NextWait \/ NextGet

SpecRead == InitRead /\ [][NextRead]_vars

----------------------------------------------------------------------------
(* The patch and wait commands: one of them runs.                           *)

Init == InitMerge \/ InitPatch \/ InitWait

Next == NextMerge \/ NextPatch \/ NextWait

Spec == Init /\ [][Next]_vars

----------------------------------------------------------------------------
(* Properties of the merge patch engine.                                    *)

\* the document before the n-th call of deepMerge, and after it
MergeInput(n) == IF n = 1 THEN doc ELSE Encode(heap, results[n - 1])
MergeOutput(n) == Encode(heap, results[n])

RECURSIVE ArrayFree(_)
ArrayFree(tr) ==
    CASE tr.t = "arr" -> FALSE
      [] tr.t = "obj" -> \A k \in DOMAIN tr.m : ArrayFree(tr.m[k])
      [] OTHER -> TRUE

RECURSIVE NullFree(_)
NullFree(tr) ==
    CASE tr.t = "null" -> FALSE
      [] tr.t = "obj" -> \A k \in DOMAIN tr.m : NullFree(tr.m[k])
      [] tr.t = "arr" -> \A n \in 1..Len(tr.s) : NullFree(tr.s[n])
      [] OTHER -> TRUE

\* no path at which the patch p carries Null exists in r
RECURSIVE TombstonesGone(_, _)
TombstonesGone(p, r) ==
    \A k \in DOMAIN p.m :
        /\ p.m[k] = Null => k \notin DOMAIN r.m
        /\ (p.m[k].t = "obj" /\ k \in DOMAIN r.m /\ r.m[k].t = "obj")
              => TombstonesGone(p.m[k], r.m[k])

\* C1: applying an array-free merge patch a second time to the result of
\* its first application changes nothing: the two results are
\* structurally equal.
C1_MergeIdempotent ==
    (Len(results) >= 2 /\ pc = "merged" /\ ArrayFree(patch))
        => MergeOutput(2) = MergeOutput(1)

\* C2: merging any patch into a Null-free base gives a result that holds
\* no Null at any depth and lacks every path at which the patch carries
\* Null.
C2_NullOnlyTombstone ==
    (Len(results) >= 1 /\ pc = "merged" /\ NullFree(doc))
        => /\ NullFree(MergeOutput(1))
           /\ TombstonesGone(patch, MergeOutput(1))

\* the merge operator of the specification on trees: r is the merge of the
\* patch p into the base b at every key p sets and at every key p leaves
RECURSIVE MatchesReference(_, _, _)
MatchesReference(b, p, r) ==
    /\ \A k \in DOMAIN p.m :
          p.m[k] # Null =>
             /\ k \in DOMAIN r.m
             /\ IF p.m[k].t = "obj" /\ MapGet(b.m, k).t = "obj"
                THEN /\ r.m[k].t = "obj"
                     /\ MatchesReference(b.m[k], p.m[k], r.m[k])
                ELSE r.m[k] = p.m[k]
    /\ \A k \in DOMAIN b.m \ DOMAIN p.m :
          k \in DOMAIN r.m /\ r.m[k] = b.m[k]

\* C8: at each key the patch sets to a non-Null value the result of
\* deepMerge holds the recursive merge when base and patch both hold an
\* object there, and otherwise exactly the patch's value (an array replaces
\* an array wholesale); keys the patch does not mention keep the base's
\* value.
C8_MergeMatchesReference ==
    \A n \in 1..Len(results) :
        pc = "merged" => MatchesReference(MergeInput(n), patch, MergeOutput(n))

\* an array of the patch has replaced a different array of the base, and
\* two objects have been merged below a key
C8_Witness ==
    /\ pc = "merged"
    /\ Len(results) >= 1
    /\ "a" \in DOMAIN doc.m /\ "a" \in DOMAIN patch.m
    /\ "b" \in DOMAIN doc.m /\ "b" \in DOMAIN patch.m
    /\ doc.m["a"].t = "arr" /\ patch.m["a"].t = "arr"
    /\ doc.m["a"] # patch.m["a"]
    /\ doc.m["b"].t = "obj" /\ patch.m["b"].t = "obj"
    /\ DOMAIN doc.m["b"].m = {"a"} /\ DOMAIN patch.m["b"].m = {"b"}
    /\ DOMAIN MergeOutput(1).m["b"].m = {"a", "b"}

\* the patch is {k: Null} for one key k
IsTombstoneFor(p, k) == DOMAIN p.m = {k} /\ p.m[k] = Null

\* C9: deepMerge(base, {k: Null}) has no key k and has every other key of
\* base with its value unchanged, also when base has no key k.
C9_TombstoneFrame ==
    \A n \in 1..Len(results) : \A k \in MergeKeys :
        (pc = "merged" /\ IsTombstoneFor(patch, k)) =>
            LET b == MergeInput(n)
                r == MergeOutput(n)
            IN  /\ DOMAIN r.m = DOMAIN b.m \ {k}
                /\ \A x \in DOMAIN r.m : r.m[x] = b.m[x]

\* a key the base holds has been deleted while another key stayed
C9_Witness ==
    /\ pc = "merged"
    /\ Len(results) >= 1
    /\ IsTombstoneFor(patch, "a")
    /\ DOMAIN doc.m = {"a", "b"}
    /\ DOMAIN MergeOutput(1).m = {"b"}

----------------------------------------------------------------------------
(* Properties of the pointer patch engine.                                  *)

\* the value of the tree tr at the pointer tokens toks, NoDoc when there is
\* none: object keys, and one-digit indices into arrays
RECURSIVE Resolve(_, _)
Resolve(tr, toks) ==
    IF toks = <<>> THEN tr
    ELSE IF tr.t = "obj" /\ Join(Head(toks)) \in DOMAIN tr.m
    THEN Resolve(tr.m[Join(Head(toks))], Tail(toks))
    ELSE IF /\ tr.t = "arr"
            /\ Len(Head(toks)) = 1
            /\ Head(toks)[1] \in DOMAIN DigitValue
            /\ DigitValue[Head(toks)[1]] < Len(tr.s)
    THEN Resolve(tr.s[DigitValue[Head(toks)[1]] + 1], Tail(toks))
    ELSE NoDoc

Front(toks) == SubSeq(toks, 1, Len(toks) - 1)
Last(toks) == toks[Len(toks)]

\* the loop of applyJSONPatch is about to apply the operation NextOp to
\* the document Before
AboutToApply == pc = "loop" /\ opIdx < Len(patch)
NextOp == patch[opIdx + 1]
Before == Encode(heap, current)

PathXY == <<"/", "x", "/", "y">>

\* the patch starts [add "/x/y" = v, remove "/x/y"], both have been
\* applied to a document without key x
AddThenRemoved ==
    /\ pc = "loop" /\ opIdx = 2
    /\ "x" \notin DOMAIN doc.m
    /\ patch[1].op = "add" /\ patch[1].path = PathXY
    /\ patch[2].op = "remove" /\ patch[2].path = PathXY

\* C3 as stated: add "/x/y" = v followed by remove "/x/y" gives back a
\* document structurally equal to the original, which had no key x.
C3_AddRemoveRoundTrip == AddThenRemoved => Encode(heap, current) = doc

\* C3 as amended: add "/x/y" = v followed by remove "/x/y" gives the
\* original document plus the key x holding the empty object that add
\* created; every other key is as in the original.
C3_AddRemoveLeavesEmptyParent ==
    AddThenRemoved =>
        Encode(heap, current) = Obj(MapPut(doc.m, "x", Obj(EmptyMap)))

C3_Witness == AddThenRemoved /\ doc.m # EmptyMap

\* op is an add whose last token is the append marker and whose parent in
\* the tree tr is an array
IsAppend(op, tr) ==
    /\ op.isObject /\ op.op = "add" /\ ~IsRootPath(op.path)
    /\ Last(PathParts(op.path)) = <<"-">>
    /\ Resolve(tr, Front(PathParts(op.path))).t = "arr"

\* C4: an add whose final token is "-" and whose parent is an array of
\* length n succeeds, and the array then is the old one with the value
\* appended as element n.
C4_ArrayAppend ==
    [][(AboutToApply /\ IsAppend(NextOp, Before)) =>
          /\ pc' = "loop"
          /\ Resolve(Encode(heap', current'), Front(PathParts(NextOp.path)))
               = Arr(Append(Resolve(Before, Front(PathParts(NextOp.path))).s,
                            NextOp.value))]_vars

\* the patch applied to the document by the operators alone, outside the
\* command: the error of the first operation that fails, or the document
\* after the last operation
RECURSIVE ApplyAll(_, _, _, _)
ApplyAll(h, cur, vals, n) ==
    IF n > Len(patch) THEN [err |-> "nil", tree |-> Encode(h, MapRef(cur))]
    ELSE LET r == applyOperation(h, cur, patch[n], vals[n])
         IN  IF r.err # "nil" THEN [err |-> r.err, tree |-> NoDoc]
             ELSE ApplyAll(r.h, r.a, vals, n + 1)

PatchOutcome ==
    LET p == DecodeValues(<<>>, patch, 1, <<>>)
        d == Decode(p.h, doc)
    IN  ApplyAll(d.h, d.v.a, p.vs, 1)

\* C5: when any operation of the patch fails, at any position,
\* applyJSONPatch issues no PUT and does not return success; a PUT is
\* issued only when every operation succeeded, and its body is the
\* document that applying all operations in list order produces.
C5_AbortedPatchSendsNothing ==
    /\ PatchOutcome.err # "nil" => (sent = NoDoc /\ pc # "done")
    /\ sent # NoDoc => (PatchOutcome.err = "nil" /\ sent = PatchOutcome.tree)

\* the second operation failed after the first succeeded
C5_Witness ==
    /\ pc = "failed" /\ opIdx = 1 /\ Len(patch) = 2
    /\ Encode(heap, current) # doc
    /\ sent = NoDoc

\* op is a replace whose last token is an object key (not the append
\* marker) that its parent object in the tree tr does not hold
ReplacesMissingKey(op, tr) ==
    /\ op.isObject /\ op.op = "replace" /\ ~IsRootPath(op.path)
    /\ Last(PathParts(op.path)) # <<"-">>
    /\ Resolve(tr, Front(PathParts(op.path))).t = "obj"
    /\ Join(Last(PathParts(op.path)))
          \notin DOMAIN Resolve(tr, Front(PathParts(op.path))).m

\* C6: a replace whose terminal key does not exist in its parent object
\* fails with "path does not exist", and the document passed in is the
\* same afterwards, at every depth.
C6_ReplaceNeverCreates ==
    [][(AboutToApply /\ ReplacesMissingKey(NextOp, Before)) =>
          /\ pc' = "failed"
          /\ err' = "path does not exist"
          /\ Encode(heap', current) = Before]_vars

\* a replace of a missing key below an existing object has failed
C6_Witness ==
    /\ pc = "failed" /\ opIdx = 0 /\ current # Null
    /\ Len(patch) >= 1
    /\ patch[1].path = PathXY
    /\ ReplacesMissingKey(patch[1], doc)
    /\ err = "path does not exist"

\* C7: no call of deepMerge, setPath or removePath, failing or not,
\* changes a document that existed before it: the decoded resource, the
\* patch and its values, the document passed in and every earlier result
\* are structurally the same after the step, at every depth.
C7_InputsNeverMutated ==
    [][/\ Encode(heap', docRef) = Encode(heap, docRef)
       /\ Encode(heap', current) = Encode(heap, current)
       /\ \A n \in DOMAIN patchRef :
             Encode(heap', patchRef[n]) = Encode(heap, patchRef[n])
       /\ \A n \in DOMAIN results :
             Encode(heap', results[n]) = Encode(heap, results[n])
       /\ docRef # Null => Encode(heap', docRef) = doc]_vars

\* an add has written below an object inside an array, and elsewhere a
\* merge has recursed into a nested object
C7_Witness ==
    \/ /\ pc = "loop" /\ opIdx = 1
       /\ patch[1].op = "add"
       /\ patch[1].path = <<"/", "d", "/", "1", "/", "y">>
       /\ Encode(heap, current) # doc
    \/ /\ pc = "merged"
       /\ MapGet(doc.m, "a").t = "obj" /\ MapGet(patch.m, "a").t = "obj"
       /\ MergeOutput(1) # doc

----------------------------------------------------------------------------
(* Properties of the dot-path read.                                         *)

\* the non-Null name fields of the elements, in element order
RECURSIVE NamesOf(_)
NamesOf(s) ==
    IF s = <<>> THEN <<>>
    ELSE IF Head(s).t = "obj" /\ MapGet(Head(s).m, "name") # Null
    THEN <<Head(s).m["name"]>> \o NamesOf(Tail(s))
    ELSE NamesOf(Tail(s))

EvaluatedItemsStarName == pc = "evaluated" /\ jsonPath = PathItemsStarName

----------------------------------------------------------------------------
(* Properties of the path reads and of the selector engine.                 *)

\* the non-empty segments of a dot-path, as keys
PathNames(p) == Strings(SelectSeq(Split(p, "."), LAMBDA part : part # <<>>))

\* the value under the keys names of a tree: Null from the first key on
\* that is missing or that is asked of a value that is no object
RECURSIVE DotResolve(_, _)
DotResolve(tr, names) ==
    IF names = <<>> THEN tr
    ELSE IF tr.t = "obj" /\ Head(names) \in DOMAIN tr.m
    THEN DotResolve(tr.m[Head(names)], Tail(names))
    ELSE Null

\* the get command holds a decoded list
ListDecoded ==
    pc \in {"fetched", "labelled", "filtered", "printed"} /\ docRef.t = "map"

\* the items of result that are objects, as they are now
ObjectItems ==
    LET items == MapGet(heap[docRef.a].m, "items")
    IN  IF items.t = "slice"
        THEN SelectSeq(heap[items.a].s, LAMBDA v : v.t = "map")
        ELSE <<>>

\* the paths of the field selector's conditions, the empty path and "."
FieldPaths ==
    {parseFieldSelector(fieldSelector)[n].path :
        n \in 1..Len(parseFieldSelector(fieldSelector))} \cup {<<>>, <<".">>}

\* C11: the path reads are total.  evaluateSimpleJSONPath and
\* getFieldValue return, for every document and path, the value found
\* under the path's non-empty segments, Null as soon as a segment cannot
\* be resolved (a missing field, a descent through a scalar or an array, a
\* broken bracket read as a key that is not there), and the root itself for
\* the empty path and for "."; there is no other outcome.
C11_PathReadTotal ==
    /\ pc = "evaluated" =>
          /\ Encode(heap, waitValue) = DotResolve(doc, PathNames(jsonPath))
          /\ jsonPath \in {<<>>, <<".">>} => waitValue = docRef
    /\ ListDecoded =>
          \A n \in 1..Len(ObjectItems) : \A p \in FieldPaths :
              LET item == ObjectItems[n]
                  value == getFieldValue(heap, item, p)
              IN  /\ Encode(heap, value)
                       = DotResolve(Encode(heap, item), PathNames(p))
                  /\ p \in {<<>>, <<".">>} => value = item

\* the field selector has run over an item whose metadata.name is a string,
\* with a path that descends through it
C11_Witness ==
    /\ pc = "filtered"
    /\ fieldSelector = SelNe(PathThroughScalar, Default)
    /\ \E n \in 1..Len(ObjectItems) :
          /\ getFieldValue(heap, ObjectItems[n],
                           MetadataNamespace \o <<".">>) = Str("default")
          /\ getFieldValue(heap, ObjectItems[n], PathThroughScalar) = Null

\* fmt.Sprintf("%v", v) of a value given as a tree
RenderTree(tr) == LET d == Decode(<<>>, tr) IN Sprintf(d.h, d.v)

\* the entries of an object, rendered
RenderedLabels(tr) == [k \in DOMAIN tr.m |-> RenderTree(tr.m[k])]

\* the label map of the claim: metadata.labels when the item has it, the
\* top-level labels only when it has not
LabelTarget(tr) ==
    LET inner == DotResolve(tr, <<"metadata", "labels">>)
        outer == DotResolve(tr, <<"labels">>)
    IN  IF inner.t = "obj" THEN RenderedLabels(inner)
        ELSE IF outer.t = "obj" THEN RenderedLabels(outer)
        ELSE [k \in {} |-> ""]

\* the label filter has run with at least one condition over an array
LabelFiltered ==
    /\ pc = "labelled"
    /\ Len(parseLabelSelector(labelSelector)) > 0
    /\ MapGet(doc.m, "items").t = "arr"

\* the items of result, as they are now
ResultItems == itemsOf(Encode(heap, docRef))

\* C12: the label filter matches the conditions against metadata.labels,
\* and against the top-level labels only when the item has no
\* metadata.labels: the items it keeps are the fetched objects whose label
\* map, taken in that precedence, matches.
C12_MetadataLabelsDecide ==
    LabelFiltered =>
        ResultItems
          = SelectSeq(itemsOf(doc), LAMBDA it :
                it.t = "obj"
                  /\ matchesLabelConditions(LabelTarget(it),
                         parseLabelSelector(labelSelector)))

ItemProd ==
    Obj([metadata |-> Obj([name |-> Str("a"), namespace |-> Str("default"),
                           labels |-> Obj([env |-> Str("prod")])])])

ItemUnlabelled ==
    Obj([metadata |-> Obj([name |-> Str("e"), labels |-> Obj(EmptyMap)])])

ItemNoMetadata == Obj([labels |-> Obj([env |-> Str("staging")])])

\* the label map the engine extracts from an item given as a tree
LabelsOfTree(tr) == LET d == Decode(<<>>, tr) IN extractLabelsMap(d.h, d.v)

\* the label selector sel accepts the item
Accepts(tr, sel) ==
    tr.t = "obj"
      /\ matchesLabelConditions(LabelsOfTree(tr), parseLabelSelector(sel))

\* the value lists as typed, with the values they name
SetCases == {<<ProdStaging, {Prod, Staging}>>, <<DevProd, {Dev, Prod}>>}

\* the object items whose label map has the key with one of the values
HavingOneOf(items, key, values) ==
    SelectSeq(items, LAMBDA it :
        /\ it.t = "obj"
        /\ Join(key) \in DOMAIN LabelsOfTree(it)
        /\ LabelsOfTree(it)[Join(key)] \in {Join(v) : v \in values})

\* C13: the selector "key in (v1,...,vn)" keeps exactly the items whose
\* label map has the key with one of the values v1..vn, in order; the
\* commas between the parentheses do not split the clause, and an item
\* without the key is dropped.
C13_SetMembership ==
    \A c \in SetCases :
        (LabelFiltered /\ labelSelector = SelIn(Env, c[1])) =>
            ResultItems = HavingOneOf(itemsOf(doc), Env, c[2])

\* "env in (prod,staging)" has kept the prod item and dropped the item
\* without env
C13_Witness ==
    /\ LabelFiltered
    /\ labelSelector = SelIn(Env, ProdStaging)
    /\ itemsOf(doc) = <<ItemUnlabelled, ItemProd>>
    /\ ResultItems = <<ItemProd>>

\* a negated selector with the selector it negates
NegatedCases ==
    {<<SelNe(Env, v), SelEq(Env, v)>> : v \in {Prod, Dev}}
      \cup {<<SelNotIn(Env, vs), SelIn(Env, vs)>> : vs \in ValueLists}

\* the object items among items
ObjectsAmong(items) == SelectSeq(items, LAMBDA it : it.t = "obj")

\* C14: the negated label operators are exact complements.  For every
\* item, "key!=value" accepts it iff "key=value" rejects it and
\* "key notin (V)" accepts it iff "key in (V)" rejects it, so the filter
\* run with one keeps exactly the objects the other drops; an item whose
\* label map lacks the key is kept by both negated forms.
C14_NegationComplement ==
    \A c \in NegatedCases :
        /\ (LabelFiltered /\ labelSelector = c[1]) =>
              /\ ResultItems
                   = SelectSeq(ObjectsAmong(itemsOf(doc)),
                               LAMBDA it : ~Accepts(it, c[2]))
              /\ \A n \in 1..Len(itemsOf(doc)) :
                    LET it == itemsOf(doc)[n]
                    IN  (it.t = "obj" /\ Join(Env) \notin DOMAIN LabelsOfTree(it))
                          => \E k \in 1..Len(ResultItems) : ResultItems[k] = it
        /\ (LabelFiltered /\ labelSelector = c[2]) =>
              ResultItems
                = SelectSeq(ObjectsAmong(itemsOf(doc)),
                            LAMBDA it : ~Accepts(it, c[1]))

\* "env notin (prod,staging)" has kept the item without env and dropped
\* the prod item
C14_Witness ==
    /\ LabelFiltered
    /\ labelSelector = SelNotIn(Env, ProdStaging)
    /\ itemsOf(doc) = <<ItemUnlabelled, ItemProd>>
    /\ ResultItems = <<ItemUnlabelled>>

\* the paths of the field selectors
SelectorPaths ==
    {MetadataNamespace, PathEmptySegment, PathThroughScalar,
     PathBrokenBracket, <<".">>}

\* the item has a non-Null value under the path that renders as value
RendersAs(it, p, value) ==
    LET v == DotResolve(it, PathNames(p))
    IN  v # Null /\ RenderTree(v) = Join(value)

\* a step of the field filter with at least one condition over an array
FieldFilterStep ==
    /\ pc = "labelled"
    /\ pc' = "filtered"
    /\ Len(parseFieldSelector(fieldSelector)) > 0
    /\ MapGet(heap[docRef.a].m, "items").t = "slice"

\* the items of result after the step
ResultItemsAfter == itemsOf(Encode(heap', docRef'))

\* C15: the field selector "path=value" keeps exactly the items in which
\* the path resolves to a non-Null value whose rendering is value, and
\* "path!=value" keeps exactly the items in which the path resolves to
\* Null or to a value rendering differently; an item without metadata is
\* dropped by "metadata.namespace=default" and kept by
\* "metadata.namespace!=default".
C15_FieldSelector ==
    [][\A p \in SelectorPaths :
          /\ (FieldFilterStep /\ fieldSelector = SelEq(p, Default)) =>
                ResultItemsAfter
                  = SelectSeq(ObjectsAmong(ResultItems),
                              LAMBDA it : RendersAs(it, p, Default))
          /\ (FieldFilterStep /\ fieldSelector = SelNe(p, Default)) =>
                ResultItemsAfter
                  = SelectSeq(ObjectsAmong(ResultItems),
                              LAMBDA it : ~RendersAs(it, p, Default))]_vars

\* "metadata.namespace!=default" has kept the item without metadata and
\* dropped the item of the namespace default
C15_Witness ==
    /\ pc = "filtered"
    /\ fieldSelector = SelNe(MetadataNamespace, Default)
    /\ labelSelector = <<>>
    /\ itemsOf(doc) = <<ItemNoMetadata, ItemProd>>
    /\ ResultItems = <<ItemNoMetadata>>

\* the item passes the label selector and the field selector of the
\* invocation: every condition that was read from them holds of it
SatisfiesSelectors(it) ==
    LET d == Decode(<<>>, it)
        labels == parseLabelSelector(labelSelector)
        fields == parseFieldSelector(fieldSelector)
    IN  /\ Len(labels) > 0 =>
              it.t = "obj"
                /\ matchesLabelConditions(extractLabelsMap(d.h, d.v), labels)
        /\ Len(fields) > 0 =>
              it.t = "obj" /\ matchesFieldConditions(d.h, d.v, fields)

\* C16: filtering follows retrieval.  In a list invocation with a label or
\* a field selector nothing is filtered or printed before the list has
\* been fetched and decoded, and the items that are printed are exactly
\* the fetched items that satisfy every condition, in fetched order.
C16_FilterFollowsRetrieval ==
    [][/\ (heap' # heap /\ pc # "get") => pc \in {"fetched", "labelled"}
       /\ printed' # printed => docRef'.t = "map"
       /\ (/\ pc' = "printed"
           /\ docRef'.t = "map"
           /\ labelSelector # <<>> \/ fieldSelector # <<>>)
             => printed' = SelectSeq(itemsOf(doc), SatisfiesSelectors)]_vars

\* the list doc after runGet's label filter with the selector sel
LabelFilterOf(tr, sel) ==
    LET d == Decode(<<>>, tr)
    IN  IF sel = <<>> THEN tr
        ELSE Encode(filterByLabelSelector(d.h, d.v, sel), d.v)

\* the list doc after runGet's field filter with the selector sel
FieldFilterOf(tr, sel) ==
    LET d == Decode(<<>>, tr)
    IN  IF sel = <<>> THEN tr
        ELSE Encode(filterByFieldSelector(d.h, d.v, sel), d.v)

\* a label selector with a clause that cannot be read, and the selector
\* without that clause
DroppedLabelCases ==
    { <<NoKeyClause, <<>>>>,
      <<SelAnd(SelEq(Env, Prod), NoKeyClause), SelEq(Env, Prod)>>,
      <<SelAnd(NoKeyClause, SelNotIn(Env, DevProd)), SelNotIn(Env, DevProd)>> }

\* the same for field selectors: a clause without operator or without path
DroppedFieldCases ==
    { <<NoOperatorClause, <<>>>>,
      <<NoPathClause, <<>>>>,
      <<SelAnd(SelEq(MetadataNamespace, Default), NoOperatorClause),
        SelEq(MetadataNamespace, Default)>>,
      <<SelAnd(NoPathClause, SelNe(MetadataNamespace, Default)),
        SelNe(MetadataNamespace, Default)>> }

\* C17: a selector clause that cannot be read is dropped silently.  A label
\* clause with an empty key and a field clause without operator or without
\* path give no condition and no error; the list is filtered as it is by
\* the selector without the clause, and when no clause is left the list
\* goes on as it was fetched.
C17_UnreadableClauseDropped ==
    /\ \A c \in DroppedLabelCases :
          (pc = "labelled" /\ labelSelector = c[1]) =>
              /\ parseLabelSelector(c[1]) = parseLabelSelector(c[2])
              /\ Encode(heap, docRef) = LabelFilterOf(doc, c[2])
              /\ c[2] = <<>> => Encode(heap, docRef) = doc
              /\ err = "nil"
    /\ \A c \in DroppedFieldCases :
          (pc = "filtered" /\ labelSelector = <<>> /\ fieldSelector = c[1]) =>
              /\ parseFieldSelector(c[1]) = parseFieldSelector(c[2])
              /\ Encode(heap, docRef) = FieldFilterOf(doc, c[2])
              /\ c[2] = <<>> => Encode(heap, docRef) = doc
              /\ err = "nil"

\* "env=prod,=v" has filtered as "env=prod" does
C17_Witness ==
    /\ pc = "labelled"
    /\ labelSelector = SelAnd(SelEq(Env, Prod), NoKeyClause)
    /\ itemsOf(doc) = <<ItemUnlabelled, ItemProd>>
    /\ ResultItems = <<ItemProd>>

----------------------------------------------------------------------------
(* Properties of the pointer patch engine at array indices and at scalars.  *)

\* op is an operation of the given kind whose last token is a literal
\* index into the array that is its parent in the tree tr
AtIndex(op, tr, kind) ==
    /\ op.isObject /\ op.op = kind /\ ~IsRootPath(op.path)
    /\ LET last == Last(PathParts(op.path))
           parent == Resolve(tr, Front(PathParts(op.path)))
       IN  /\ parent.t = "arr"
           /\ Len(last) = 1 /\ last[1] \in DOMAIN DigitValue
           /\ DigitValue[last[1]] < Len(parent.s)

\* the index and the array the operation is about, and the array afterwards
IndexOf(op) == DigitValue[Last(PathParts(op.path))[1]]
ParentOf(op, tr) == Resolve(tr, Front(PathParts(op.path)))
After == Encode(heap', current')

\* the sequence s with v put before its element of (0-based) index i
InsertAt(s, i, v) == SubSeq(s, 1, i) \o <<v>> \o SubSeq(s, i + 1, Len(s))

\* C18: a replace whose pointer ends in a literal index i of an array of
\* length n > i succeeds, and the array then is the old one with element i
\* equal to the supplied value, whatever element i was before (a scalar, an
\* array or an object), every other element unchanged.
C18_ReplaceAtIndex ==
    [][(AboutToApply /\ AtIndex(NextOp, Before, "replace")) =>
          /\ pc' = "loop"
          /\ ParentOf(NextOp, After)
               = Arr([ParentOf(NextOp, Before).s
                        EXCEPT ![IndexOf(NextOp) + 1] = NextOp.value])]_vars

\* C19: an add whose pointer ends in a literal index i of an array of
\* length n > i succeeds, and the array then has length n + 1, holds the
\* supplied value as element i and the former elements i..n-1 as elements
\* i+1..n; no element is lost.
C19_AddAtIndexInserts ==
    [][(AboutToApply /\ AtIndex(NextOp, Before, "add")) =>
          /\ pc' = "loop"
          /\ ParentOf(NextOp, After)
               = Arr(InsertAt(ParentOf(NextOp, Before).s, IndexOf(NextOp),
                              NextOp.value))]_vars

\* the lengths of the proper prefixes of the operation's tokens that lead
\* to a scalar in the tree tr
ScalarPrefixes(op, tr) ==
    IF ~op.isObject \/ op.op \notin {"add", "replace", "remove"}
         \/ IsRootPath(op.path)
    THEN {}
    ELSE {n \in 1..(Len(PathParts(op.path)) - 1) :
             Resolve(tr, SubSeq(PathParts(op.path), 1, n)).t = "str"}

\* C20: an add, replace or remove whose pointer has a non-terminal token
\* naming an existing key with a scalar value fails, and the scalar stays
\* where it was: an add does not put a new object in its place.
C20_ScalarIntermediateFails ==
    [][AboutToApply =>
          \A n \in ScalarPrefixes(NextOp, Before) :
              /\ pc' = "failed"
              /\ Resolve(After, SubSeq(PathParts(NextOp.path), 1, n))
                   = Resolve(Before, SubSeq(PathParts(NextOp.path), 1, n))]_vars

----------------------------------------------------------------------------
(* Properties of the pointer patch engine at missing keys and at array      *)
(* tokens that are no index.                                                *)

\* the tokens of the operation that is about to be applied
NextParts == PathParts(NextOp.path)

\* the positions of the non-terminal tokens that name a key absent from
\* the object they are asked of in the tree tr
MissingIntermediates(op, tr) ==
    IF ~op.isObject \/ IsRootPath(op.path) THEN {}
    ELSE {n \in 1..(Len(PathParts(op.path)) - 1) :
             LET parent == Resolve(tr, SubSeq(PathParts(op.path), 1, n - 1))
             IN  /\ parent.t = "obj"
                 /\ Join(PathParts(op.path)[n]) \notin DOMAIN parent.m}

\* the keys of the object at the tokens toks of the tree tr, none when
\* there is no object
KeysAt(tr, toks) ==
    IF Resolve(tr, toks).t = "obj" THEN DOMAIN Resolve(tr, toks).m ELSE {}

\* the errors of the code that say a path was not found
PathNotFound ==
    {"path does not exist", "path does not exist or is not an object"}

\* C21: a missing intermediate is created only by add.  When a non-terminal
\* token names a key absent from its parent object, add does not fail for
\* it: it goes on, and where it succeeds the key holds a new object with
\* nothing but the next token in it; replace and remove fail with
\* path-not-found and leave the document as it was.  No operation other
\* than add increases the keys of any object it reaches through objects
\* on its path.
C21_OnlyAddCreates ==
    [][(AboutToApply /\ NextOp.isObject) =>
          /\ \A n \in MissingIntermediates(NextOp, Before) :
                IF NextOp.op = "add"
                THEN /\ err' \notin PathNotFound
                     /\ pc' = "loop" =>
                           KeysAt(After, SubSeq(NextParts, 1, n))
                             = {Join(NextParts[n + 1])}
                ELSE NextOp.op \in {"replace", "remove"} =>
                        /\ pc' = "failed"
                        /\ err' \in PathNotFound
                        /\ After = Before
                        /\ sent' = NoDoc
          /\ NextOp.op # "add" =>
                \A k \in 0..Len(NextParts) :
                    (\A j \in 0..(k - 1) :
                        Resolve(Before, SubSeq(NextParts, 1, j)).t = "obj")
                      => KeysAt(After, SubSeq(NextParts, 1, k))
                           \subseteq KeysAt(Before, SubSeq(NextParts, 1, k))]_vars

\* add "/x/y" has made x in the empty document, then replace "/s/d/-" has
\* failed at the missing s
C21_Witness ==
    /\ doc = Obj(EmptyMap)
    /\ Len(patch) = 2
    /\ patch[1] = Operation("add", PathXY, Str("w"))
    /\ patch[2] = Operation("replace", <<"/", "s", "/", "d", "/", "-">>, Str("w"))
    /\ pc = "failed" /\ opIdx = 1
    /\ err \in PathNotFound
    /\ Encode(heap, current) = Obj([x |-> Obj([y |-> Str("w")])])

\* op is a remove or a replace whose last token is asked of an array
AtArrayToken(op, tr) ==
    /\ op.isObject /\ op.op \in {"remove", "replace"} /\ ~IsRootPath(op.path)
    /\ Resolve(tr, Front(PathParts(op.path))).t = "arr"

\* the token is a literal index of an array of length n: decimal digits
\* with a value below n
IsIndexBelow(tok, n) ==
    /\ tok # <<>>
    /\ \A k \in 1..Len(tok) : tok[k] \in DOMAIN DigitValue
    /\ Decimal(tok, 0) < n

\* the errors of the code by the kinds of the specification
InvalidOperation == {"append only valid for arrays"}
IndexOutOfRange == {"array index out of bounds"}

\* C22: the array addressing errors of remove and replace are distinct.
\* With the append marker "-" as array token the operation fails as an
\* invalid operation; with any other token that is not a literal index
\* inside the array (too large, negative, not a number) it fails as an
\* index out of range; neither gives a patched document.
C22_ArrayTokenErrors ==
    [][(AboutToApply /\ AtArrayToken(NextOp, Before)) =>
          LET tok == Last(NextParts)
              n == Len(Resolve(Before, Front(NextParts)).s)
          IN  /\ tok = <<"-">> =>
                    pc' = "failed" /\ err' \in InvalidOperation
              /\ (tok # <<"-">> /\ ~IsIndexBelow(tok, n)) =>
                    pc' = "failed" /\ err' \in IndexOutOfRange]_vars

----------------------------------------------------------------------------
(* Properties of the bracket segment "field[n]" in the dot-path readers.    *)

EvaluatedItemsIndexName == pc = "evaluated" /\ jsonPath = PathItemsIndexName

\* the element at index n (from 0) of the array stored under key in the
\* object tr, Null when there is no array or n is outside it
ElementAt(tr, key, n) ==
    IF MapGet(tr.m, key).t = "arr" /\ n < Len(tr.m[key].s)
    THEN tr.m[key].s[n + 1]
    ELSE Null

\* the value under key of the tree v when v is an object, else Null
FieldOf(v, key) == IF v.t = "obj" THEN MapGet(v.m, key) ELSE Null

----------------------------------------------------------------------------
(* Properties of the polling loops of the wait command.                     *)

\* this step is a turn of the polling loop named by at that made its GET
PollTurn(at) == pc = at /\ ~pastDeadline

\* the GET of this step gave a document
Polled == succeeded(response') /\ decodes(response')

\* the loop of this step returned nil
ReturnsSuccess == pc' = "done" /\ err' = "nil"

\* the loop of this step goes on polling
KeepsPolling == pc' = pc /\ err' = "nil" /\ clock' > clock

\* C24: Null means not yet met.  A poll of waitForJSONPath in which the
\* path resolves to Null neither reports success nor returns an error,
\* whatever the expected literal is: the loop goes on polling.
C24_NullNotYetMet ==
    [][(PollTurn("waitForJSONPath") /\ Polled /\ waitValue' = Null)
          => KeepsPolling]_vars

\* the poll saw that the resource is no longer there
NotFound(r) == r.kind = "response" /\ r.code = 404

\* C25: wait --for=delete reports the resource deleted only in a turn
\* whose poll observed that the resource no longer exists; a poll that
\* fails for another reason (no connection, the five seconds over, 401,
\* 403, 500) does not end the wait with success.
C25_DeletedOnlyWhenGone ==
    [][(PollTurn("waitForDeletion") /\ ReturnsSuccess)
          => NotFound(response')]_vars

\* the condition named cond is True, or the state is the one named, in
\* the document tr
ConditionHolds(tr, cond) ==
    LET status == FieldOf(tr, "status")
        conditions == FieldOf(status, "conditions")
        states == {FieldOf(status, "state"),
                   FieldOf(FieldOf(tr, "system_metadata"), "state")}
    IN  \/ /\ conditions.t = "arr"
           /\ \E n \in 1..Len(conditions.s) :
                 /\ FieldOf(conditions.s[n], "type") = Str(Join(cond))
                 /\ FieldOf(conditions.s[n], "status") = Str("True")
        \/ \E st \in states :
              /\ st.t = "str"
              /\ \/ EqualFold(Chars(st.v), cond)
                 \/ EqualFold(Chars(st.v), Active) /\ EqualFold(cond, Ready)

\* the response r shows the condition the loop named by at waits for
Observed(at, r) ==
    CASE at = "waitForDeletion" -> NotFound(r)
      [] at = "waitForCondition" ->
           succeeded(r) /\ decodes(r) /\ ConditionHolds(r.body, condition)
      [] at = "waitForJSONPath" ->
           /\ succeeded(r) /\ decodes(r)
           /\ DotResolve(r.body, PathNames(jsonPath)) # Null
           /\ RenderTree(DotResolve(r.body, PathNames(jsonPath)))
                = Join(expectedValue)

PollLoops == {"waitForDeletion", "waitForCondition", "waitForJSONPath"}

\* every wait ends
Terminates == <>(pc = "done")

\* the first poll that observes the condition ends the wait with success
FirstObservationSucceeds ==
    [][\A at \in PollLoops :
          (PollTurn(at) /\ Observed(at, response')) => ReturnsSuccess]_vars

\* the timed-out error comes in the first turn that starts after the
\* deadline, and in no turn before
TimesOutAfterDeadline ==
    [][\A at \in PollLoops :
          pc = at => (pastDeadline <=> (pc' = "done" /\ err' = "timed out"))]_vars

\* success is returned only in a turn whose poll observed the condition
SuccessOnlyObserved ==
    [][\A at \in PollLoops :
          (pc = at /\ ReturnsSuccess)
            => (~pastDeadline /\ Observed(at, response'))]_vars

\* C26: every wait terminates (each GET returns, the ticker keeps firing):
\* waitForJSONPath, waitForCondition and waitForDeletion return in the
\* end, with success in the first poll that observes the awaited
\* condition, otherwise with a timed-out error in the first turn of the
\* loop that starts after the deadline; success is never returned without
\* a poll in which the condition held.
C26_WaitTerminates ==
    /\ Terminates
    /\ FirstObservationSucceeds
    /\ TimesOutAfterDeadline
    /\ SuccessOnlyObserved

----------------------------------------------------------------------------
(* Properties of the selectors as conjunctions, of the list the filters     *)
(* are given, and of the paths of the get command that print a list.        *)

\* the list holding the one item it
ListOf(it) == Obj([items |-> Arr(<<it>>)])

\* the item is kept when the clause alone is the label selector
LabelClauseAccepts(it, clause) ==
    itemsOf(LabelFilterOf(ListOf(it), clause)) = <<it>>

\* the item is kept when the clause alone is the field selector
FieldClauseAccepts(it, clause) ==
    itemsOf(FieldFilterOf(ListOf(it), clause)) = <<it>>

\* a step of the label filter over an array
LabelFilterStep ==
    /\ pc = "fetched"
    /\ pc' = "labelled"
    /\ labelSelector # <<>>
    /\ MapGet(heap[docRef.a].m, "items").t = "slice"

\* a step of the field filter over an array
FieldSelectorStep ==
    /\ pc = "labelled"
    /\ pc' = "filtered"
    /\ fieldSelector # <<>>
    /\ MapGet(heap[docRef.a].m, "items").t = "slice"

\* C27: a selector is the conjunction of its clauses.  The label filter
\* keeps exactly the items that each clause of the selector, cut at the
\* commas outside parentheses, keeps when it is the selector alone; the
\* field filter keeps exactly the items that each clause, cut at the
\* commas, keeps when it is the selector alone.
C27_SelectorConjunction ==
    [][/\ LabelFilterStep =>
             LET clauses == splitLabelSelector(labelSelector)
             IN  ResultItemsAfter
                   = SelectSeq(ResultItems,
                       LAMBDA it : \A n \in 1..Len(clauses) :
                                      LabelClauseAccepts(it, clauses[n]))
       /\ FieldSelectorStep =>
             LET clauses == Split(fieldSelector, ",")
             IN  ResultItemsAfter
                   = SelectSeq(ResultItems,
                       LAMBDA it : \A n \in 1..Len(clauses) :
                                      FieldClauseAccepts(it, clauses[n]))]_vars

ItemStaging ==
    Obj([metadata |-> Obj([name |-> Str("b"), namespace |-> Str("other"),
                           labels |-> Obj([env |-> Str("staging")])])])

\* "env in (prod,staging),env!=prod" has kept the staging item of the two
C27_Witness ==
    /\ pc = "labelled"
    /\ labelSelector = SelAnd(SelIn(Env, ProdStaging), SelNe(Env, Prod))
    /\ itemsOf(doc) = <<ItemProd, ItemStaging>>
    /\ ResultItems = <<ItemStaging>>


\* C28: the selector engine does not mutate its input.  After a call of
\* filterByLabelSelector or filterByFieldSelector the list document the
\* caller passed in holds the items array it held before, with the same
\* length and elements, and all its other keys, for every selector, one
\* that rejects some items included.
C28_FilterKeepsInput ==
    [][(LabelFilterStep \/ FieldSelectorStep)
          => Encode(heap', docRef) = Encode(heap, docRef)]_vars

\* C29: selectors apply on every list path.  Whenever get has printed a
\* list under a label or field selector that is not empty, every item it
\* printed satisfies the selector: on the list path of one namespace,
\* across all namespaces and in watch mode.
C29_SelectorsOnEveryPath ==
    (pc = "printed" /\ (labelSelector # <<>> \/ fieldSelector # <<>>))
        => \A n \in 1..Len(printed) : SatisfiesSelectors(printed[n])

----------------------------------------------------------------------------
(* Properties of the requests of apply and replace.                         *)

\* the GET showed the resource
Exists == succeeded(response)

\* the GET showed that there is no such resource
Absent == NotFound(response)

\* applyResource has returned after its GET
Applied == pc = "done" /\ requests # <<>>

\* the requests are the GET alone
OnlyGet == requests = <<Request("GET", itemPath(doc))>>

\* the requests are the GET and then the one write given
GetThen(write) == requests = <<Request("GET", itemPath(doc)), write>>

\* C30: the protocol of apply and replace.  For a resource applyResource
\* first issues a GET of the item path and then exactly one write: a PUT
\* to the item path if the resource exists, a POST to the collection path
\* only if the resource does not exist and the command is apply; replace
\* of a resource that does not exist returns an error and issues no write.
\* A GET that fails for a reason other than absence (no connection, 401,
\* 403, 500) does not lead to a create.
C30_ApplyProtocol ==
    /\ (pc = "done" /\ Applicable(doc) /\ ~dryRun) => requests # <<>>
    /\ pc = "got" => OnlyGet
    /\ Applied =>
          /\ Exists => GetThen(Request("PUT", itemPath(doc)))
          /\ (Absent /\ ~replaceOnly) =>
                GetThen(Request("POST", basePath(doc)))
          /\ (~Exists /\ replaceOnly) => (OnlyGet /\ err # "nil")
          /\ (~Exists /\ ~Absent) => OnlyGet

=============================================================================
